---- MODULE Spec2Model ----
(***************************************************************************)
(* TerraFix remediation pipeline: the orchestrator's per-violation         *)
(* pipeline (process_failure), the Redis deduplication store and the       *)
(* GitHub pull-request creator, run by a pool of concurrent workers.       *)
(***************************************************************************)
EXTENDS Integers, Sequences, FiniteSets, TLC

(* ------------------------------ bounds -------------------------------- *)
NumWorkers == 2     \* worker threads of the pool
MaxCalls == 2       \* process_failure calls started in one behaviour
MaxFaults == 3      \* external-service errors injected in one behaviour
MaxExpire == 1      \* TTL expirations in one behaviour
MaxViolations == 2  \* violations the monitor detects in one behaviour
Horizon == 3        \* seconds of wall-clock time followed after start-up
MaxRequests == 2    \* GET /ready requests made in one behaviour
LimThreads == 2     \* threads sharing one rate limiter
LimHorizon == 4     \* seconds of monotonic time followed for the limiter
MaxLimCalls == 4    \* acquire / try_acquire calls in one behaviour
MaxPages == 2       \* pages after the first one the monitor may serve
MaxReauths == 3     \* OAuth exchanges counted per page
MaxFetches == 2     \* get_failing_tests calls in one behaviour
MaxLen == 2         \* characters in a resource ARN or a mapping pattern
MaxEntries == 2     \* entries of github_repo_mapping
MaxClones == 2      \* clones started in one behaviour
MaxPosts == 2       \* POST /webhook and /batch requests in one behaviour
MaxBatch == 2       \* failures in the body of one POST /batch
MaxLatency == 2     \* largest measured latency, in milliseconds
MaxStamp == 2       \* detection timestamps a violation may carry
MaxRecords == 1002  \* timings recorded under one timer key
MaxOtherRecords == 2  \* timings recorded under each other key
MaxDelay == 1       \* seconds the consumer may take for one failure

(* ------------------------- program constants -------------------------- *)
\* ProfileConfig of the cascade run: duration_seconds = 60,
\* failures_per_interval = 2, interval_seconds = 10 and
\* cascade_growth_rate = 1.5 = GrowthNum / GrowthDen
duration_seconds == 60
failures_per_interval == 2
interval_seconds == 10
GrowthNum == 3
GrowthDen == 2

\* MetricsCollector._record_timing: samples kept per timer key
MaxTimings == 1000

\* RedisStateStore(ttl_days = 7): days a state record is kept
ttl_days == 7

MAX_RETRIES == 3
INITIAL_BACKOFF_SECONDS == 2
MAX_BACKOFF_SECONDS == 60
HourSeconds == 3600            \* timedelta(hours=1)
poll_interval_seconds == 2     \* Settings.poll_interval_seconds (ge=1)
requests_per_minute == 30      \* RateLimitConfig.requests_per_minute
burst_size == 2                \* RateLimitConfig.burst_size
TokenUnit == 60                \* rate = requests_per_minute / 60.0

Workers == 1..NumWorkers
TestIds == {"t1"}
Arns == {"arn:aws:s3:::demo", "arn:aws:s3:::demo-logs", "arn:aws:s3:::logs"}

\* A violation as the pipeline sees it (Failure.test_id, Failure.resource_arn).
Failures == [test_id : TestIds, resource_arn : Arns]

\* Mutant of generate_failure_hash: the detection timestamp is part of the
\* signature.
generate_failure_hash_withTimestamp(failure) ==
    IF "failed_at" \in DOMAIN failure
    THEN <<failure.test_id, failure.resource_arn, failure.failed_at>>
    ELSE <<failure.test_id, failure.resource_arn>>

\* sha256(f"{test_id}-{resource_arn}"): a function of exactly these two fields.
generate_failure_hash(failure) == <<failure.test_id, failure.resource_arn>>

Fingerprints == {generate_failure_hash(f) : f \in Failures}

\* terrafix/<slug of test_name>-<md5(test_id)[:8]>: the resource ARN is not
\* part of the name (test_name is determined by test_id).
_generate_branch_name(failure) == <<"terrafix", failure.test_id>>

(* --------------------------- error taxonomy --------------------------- *)
NoError == [kind |-> "none", retryable |-> FALSE, msg |-> ""]

TerraFixError(msg, retryable) ==
    [kind |-> "TerraFixError", retryable |-> retryable, msg |-> msg]

GitHubError(msg, retryable) ==
    [kind |-> "GitHubError", retryable |-> retryable, msg |-> msg]

BedrockError(msg, retryable) ==
    [kind |-> "BedrockError", retryable |-> retryable, msg |-> msg]

ResourceNotFoundError(msg) ==
    [kind |-> "ResourceNotFoundError", retryable |-> FALSE, msg |-> msg]

TerraformParseError(msg) ==
    [kind |-> "TerraformParseError", retryable |-> FALSE, msg |-> msg]

StateStoreError(msg) ==
    [kind |-> "StateStoreError", retryable |-> FALSE, msg |-> msg]

\* An exception that is not a TerraFixError (ValueError, GithubException ...):
\* it has no retryable attribute.
OtherException(msg) ==
    [kind |-> "Exception", retryable |-> FALSE, msg |-> msg]

\* HTTP statuses a failing GitHub call answers with (0: no status available).
GhFaultStatuses == {403, 500}

GhMsg(operation, status) ==
    CASE operation = "get_repo" /\ status = 0 -> "GitHub API error during get_repo"
      [] operation = "get_repo" /\ status = 403 -> "GitHub API error during get_repo: 403"
      [] operation = "get_repo" /\ status = 500 -> "GitHub API error during get_repo: 500"
      [] operation = "create_pr" /\ status = 0 -> "GitHub API error during create_pr"
      [] operation = "create_pr" /\ status = 403 -> "GitHub API error during create_pr: 403"
      [] operation = "create_pr" /\ status = 422 -> "GitHub API error during create_pr: 422"
      [] operation = "create_pr" /\ status = 500 -> "GitHub API error during create_pr: 500"
      [] OTHER -> "GitHub API error"

\* GitHubPRCreator._handle_github_exception: status 0 stands for "no status".
_handle_github_exception(status, operation) ==
    GitHubError(GhMsg(operation, status),
                status = 0 \/ status >= 500 \/ status = 429)

(* ------------------------ deduplication store ------------------------- *)
\* self.ttl_seconds = ttl_days * 24 * 60 * 60
ttl_seconds == ttl_days * 24 * 60 * 60

\* No key: nothing stored and nothing to expire (ex = 0).
Absent ==
    [status |-> "absent", meta |-> FALSE, pr_url |-> <<>>, last_error |-> "",
     ex |-> 0]

NoUrl == <<>>

\* The record check_and_claim writes (no test_id / resource_arn metadata).
ClaimRecord ==
    [status |-> "in_progress", meta |-> FALSE, pr_url |-> NoUrl, last_error |-> "",
     ex |-> ttl_seconds]

\* The record mark_in_progress writes: a whole new record.
InProgressRecord ==
    [status |-> "in_progress", meta |-> TRUE, pr_url |-> NoUrl, last_error |-> "",
     ex |-> ttl_seconds]

\* Mutant of CompletedRecord: the status of the existing record is kept.
CompletedRecord_keepsStatus(existing, pr_url) ==
    [status |-> existing.status, meta |-> existing.meta, pr_url |-> pr_url,
     last_error |-> "", ex |-> ttl_seconds]

\* {**existing_data, status: completed, pr_url, last_error: None}
CompletedRecord(existing, pr_url) ==
    [status |-> "completed", meta |-> existing.meta, pr_url |-> pr_url,
     last_error |-> "", ex |-> ttl_seconds]

\* error[:1000] if error else "Unknown error" (messages here are short)
TruncateError(error) == IF error = "" THEN "Unknown error" ELSE error

\* Mutant of FailedRecord: the status of the existing record is kept.
FailedRecord_keepsStatus(existing, error) ==
    [status |-> existing.status, meta |-> existing.meta, pr_url |-> existing.pr_url,
     last_error |-> TruncateError(error), ex |-> ttl_seconds]

\* Mutant of FailedRecord: client.set(key, record) without ex, which leaves
\* the key without an expiry.
FailedRecord_noExpiry(existing, error) ==
    [status |-> "failed", meta |-> existing.meta, pr_url |-> existing.pr_url,
     last_error |-> TruncateError(error), ex |-> 0]

\* {**existing_data, status: failed, last_error: truncated}, written with
\* ex = ttl_seconds
FailedRecord(existing, error) ==
    [status |-> "failed", meta |-> existing.meta, pr_url |-> existing.pr_url,
     last_error |-> TruncateError(error), ex |-> ttl_seconds]

\* Mutants of AlreadyProcessed: an in-progress record does not count; a
\* failed record counts too.
AlreadyProcessed_completedOnly(record) == record.status = "completed"

AlreadyProcessed_anyStatus(record) == record.status # "absent"

\* is_already_processed on the record read from Redis
AlreadyProcessed(record) ==
    IF record.status = "absent" THEN FALSE
    ELSE record.status \in {"in_progress", "completed"}

(* ------------------------------- state -------------------------------- *)
VARIABLES
    store,        \* Redis: fingerprint -> record (Absent when no key)
    branches,     \* GitHub: remediation branches that exist
    prs,          \* GitHub: branch -> number of pull requests opened from it
    storeFaulty,  \* environment: whether Redis operations may raise
    pc,           \* worker -> position in process_failure
    cur,          \* worker -> the violation of its current call
    gateSeen,     \* worker -> status is_already_processed read for this call
    attempts,     \* worker -> _process_failure_once invocations in this call
    sleeps,       \* worker -> backoff sleeps (seconds) taken in this call
    lastErr,      \* worker -> the exception the last attempt raised
    existing,     \* worker -> record read by mark_processed / mark_failed
    retUrl,       \* worker -> PR URL _process_failure_with_retry returned
    effects,      \* worker -> external side effects of this call
    fix,          \* worker -> what terraform validate would say of the content
                  \*           this attempt hands to the PR creator
    storeCalls,   \* worker -> store writes requested in this call, in order
    storeErrors,  \* worker -> store operations that raised in this call
    result,       \* worker -> ProcessingResult of the finished call
    claimed,      \* worker -> what check_and_claim returned to it
    reported,     \* environment: the violations the monitor reports
    seeded,       \* fingerprints that had a record in the initial state
    nCalls, nFaults, nExpire,  \* budget counters
    \* the service loop (run_service_loop, process_failures_concurrent)
    svcPc,        \* position of the main thread in run_service_loop
    now,          \* wall clock, in seconds
    last_check,   \* run_service_loop's last_check
    cycle_start,  \* run_service_loop's cycle_start
    sleepLeft,    \* 1-second slices left in the inter-cycle sleep
    shutdown,     \* _shutdown_requested
    monitor,      \* violations the monitor holds: [id, failed_at]
    fetched,      \* ids of the violations some fetch has returned
    task,         \* violation id -> state of its future in this cycle's pool
    results,      \* process_failures_concurrent's results list
    \* readiness (service.py health server, api_server.py)
    service_ready,  \* service.py _service_ready
    sigPc,          \* position inside signal_handler
    hcReq,          \* the GET /ready request the health server is serving
    apiPc,          \* life cycle of the APIServer
    api_is_ready,   \* api_server.py _is_ready
    api_shutdown,   \* api_server.py _shutdown_requested
    apiReq,         \* the GET /ready request the API server is serving
    nReq,           \* budget counter: /ready requests made
    \* a token bucket (rate_limiter.py) and the threads calling it
    limTokens,  \* self.tokens, in 1/60 of a token
    limLast,  \* self.last_update
    limNow,  \* time.monotonic(), in seconds
    limPc,  \* thread -> position in acquire
    limDeadline,  \* thread -> deadline of its acquire call
    limTimeout,   \* thread -> timeout of its acquire call
    limWait,  \* thread -> wait_time it computed, in 1/requests_per_minute s
    limRet,  \* thread -> what its last call returned
    limAcq,  \* second -> tokens handed out in that second
    nLimCalls,  \* budget counter: acquire / try_acquire calls
    \* VantaClient (vanta_client.py): one get_failing_tests call at a time
    vcPc,  \* position of the client: new, idle, request, reauth
    vcOAuth,  \* whether client_id and client_secret are configured
    vcCursor,  \* page_cursor: index of the page being fetched
    vcReauths,  \* OAuth exchanges run for the current page
    vcOut,  \* how the last get_failing_tests call ended
    nVcFetch,  \* budget counter: get_failing_tests calls
    \* Settings.get_repo_for_resource (config.py): one lookup
    cfgMapping,  \* github_repo_mapping: (pattern, repo) pairs in insertion order
    cfgArn,  \* the resource ARN looked up
    cfgResult,  \* what get_repo_for_resource returned
    \* one failing GitHub API call inside create_remediation_pr
    ghOp,  \* the PyGithub call that fails
    ghStatus,  \* the HTTP status it fails with (0: none)
    ghRaised,  \* what create_remediation_pr raises for it
    ghAttempt,  \* index of the attempt in which the call is made
    ghRetry,  \* whether the retry loop starts another attempt after it
    \* a git clone of the target repository
    clPc,  \* idle, running (git spawned) or done
    clBy,  \* the function that performs the clone
    clRepo,  \* repo_full_name
    clArgv,  \* the arguments of the spawned git process
    clScript,  \* content of the GIT_ASKPASS script while it exists
    clLog,  \* the log lines emitted for the clone
    clRaised,  \* what the clone raised
    nClones,  \* clones started so far
    \* the API server's request statistics
    _stats,  \* MockProcessingStats: counters and the latency list
    nPosts,  \* POST /webhook and POST /batch requests handled so far
    lastPost,  \* the last such request: path, body and response status
    \* two violations and their fingerprints
    fhV1,  \* a violation as the monitor reports it
    fhV2,  \* another one
    fhHash,  \* their fingerprints, once computed
    \* the metrics collector's timing samples
    _timings,  \* timer key -> list of recorded samples
    mtCount,  \* timer key -> number of _record_timing calls so far
    \* generate_stream feeding an experiment
    genPc,  \* loop_test, emit or done
    genElapsed,  \* elapsed, in whole seconds, as last measured
    genSleeps,  \* asyncio.sleep(interval_seconds) calls completed
    genBusy,  \* seconds the consumer has spent on the failures yielded
    genLeft,  \* failures still to yield in this interval
    genInterval,  \* intervals_elapsed of this interval
    genEmitted,  \* intervals_elapsed -> failures yielded under it
    total_generated  \* ExperimentResult.total_generated

pipeVars == <<store, branches, prs, storeFaulty, pc, cur, gateSeen, attempts,
              sleeps, lastErr, existing, retUrl, effects, fix, storeCalls,
              storeErrors, result, claimed, reported, seeded, nCalls, nFaults,
              nExpire>>

svcVars == <<svcPc, now, last_check, cycle_start, sleepLeft, shutdown, monitor,
             fetched, task, results>>

rdyVars == <<service_ready, sigPc, hcReq, apiPc, api_is_ready, api_shutdown,
             apiReq, nReq>>

limVars == <<limTokens, limLast, limNow, limPc, limDeadline, limTimeout,
            limWait, limRet,
             limAcq, nLimCalls>>

vcVars == <<vcPc, vcOAuth, vcCursor, vcReauths, vcOut, nVcFetch>>

cfgVars == <<cfgMapping, cfgArn, cfgResult>>

ghVars == <<ghOp, ghStatus, ghRaised, ghAttempt, ghRetry>>

clVars == <<clPc, clBy, clRepo, clArgv, clScript, clLog, clRaised, nClones>>

stVars == <<_stats, nPosts, lastPost>>

fhVars == <<fhV1, fhV2, fhHash>>

mtVars == <<_timings, mtCount>>

gnVars == <<genPc, genElapsed, genSleeps, genBusy, genLeft, genInterval, genEmitted, total_generated>>

auxVars == <<rdyVars, limVars, vcVars, cfgVars, ghVars, clVars, stVars, fhVars, mtVars, gnVars>>

\* For each component, the variables of the other components.
rdyRest == <<limVars, vcVars, cfgVars, ghVars, clVars, stVars, fhVars, mtVars, gnVars>>
limRest == <<rdyVars, vcVars, cfgVars, ghVars, clVars, stVars, fhVars, mtVars, gnVars>>
vcRest == <<rdyVars, limVars, cfgVars, ghVars, clVars, stVars, fhVars, mtVars, gnVars>>
cfgRest == <<rdyVars, limVars, vcVars, ghVars, clVars, stVars, fhVars, mtVars, gnVars>>
ghRest == <<rdyVars, limVars, vcVars, cfgVars, clVars, stVars, fhVars, mtVars, gnVars>>
clRest == <<rdyVars, limVars, vcVars, cfgVars, ghVars, stVars, fhVars, mtVars, gnVars>>
stRest == <<rdyVars, limVars, vcVars, cfgVars, ghVars, clVars, fhVars, mtVars, gnVars>>
fhRest == <<rdyVars, limVars, vcVars, cfgVars, ghVars, clVars, stVars, mtVars, gnVars>>
mtRest == <<rdyVars, limVars, vcVars, cfgVars, ghVars, clVars, stVars, fhVars, gnVars>>
gnRest == <<rdyVars, limVars, vcVars, cfgVars, ghVars, clVars, stVars, fhVars, mtVars>>

vars == <<pipeVars, svcVars, auxVars>>

BranchNames == {_generate_branch_name(f) : f \in Failures}

NoResult == [state |-> "none", success |-> FALSE, skipped |-> FALSE,
             pr_url |-> NoUrl, error |-> ""]

\* ProcessingResult(success, failure_hash, pr_url, error, skipped)
ProcessingResult(success, pr_url, error, skipped) ==
    [state |-> "returned", success |-> success, skipped |-> skipped,
     pr_url |-> pr_url, error |-> error]

\* process_failure left by an exception instead of a result
RaisedResult(error) ==
    [state |-> "raised", success |-> FALSE, skipped |-> FALSE,
     pr_url |-> NoUrl, error |-> error]

NoClaim == [fp |-> <<>>, called |-> FALSE, ok |-> FALSE]

ViolationIds == 1..MaxViolations

StartTime == HourSeconds
MaxTime == StartTime + Horizon

\* A future of this cycle's pool: not submitted, queued, running, finished
\* (with what process_failure returned or raised) or collected.
NoTask == [st |-> "none", out |-> NoResult]

\* A /ready request: not under way, past the read of the ready flag, or
\* answered; after tells whether the shutdown flag was set when it came in.
NoRequest == [st |-> "idle", after |-> FALSE, status |-> 0]

\* main() has initialized the clients (_service_ready = True) and no signal
\* has arrived; the API server has not been started.
InitReadiness ==
    /\ service_ready = TRUE
    /\ sigPc = "none"
    /\ hcReq = NoRequest
    /\ apiPc = "created"
    /\ api_is_ready = FALSE
    /\ api_shutdown = FALSE
    /\ apiReq = NoRequest
    /\ nReq = 0

LimThreadIds == 1..LimThreads

\* TokenBucketRateLimiter.__init__: a full bucket, last_update = now.
InitLimiter ==
    /\ limTokens = burst_size * TokenUnit
    /\ limLast = 0
    /\ limNow = 0
    /\ limPc = [t \in LimThreadIds |-> "idle"]
    /\ limDeadline = [t \in LimThreadIds |-> 0]
    /\ limTimeout = [t \in LimThreadIds |-> 0]
    /\ limWait = [t \in LimThreadIds |-> 0]
    /\ limRet = [t \in LimThreadIds |-> "none"]
    /\ limAcq = [s \in 0..LimHorizon |-> 0]
    /\ nLimCalls = 0

\* VantaApiError(message, status_code, retryable) as get_failing_tests
\* raises it; NoOutcome while no call has ended.
VantaApiError(msg, status_code, retryable) ==
    [state |-> "raised", msg |-> msg, status_code |-> status_code,
     retryable |-> retryable]

NoOutcome == [state |-> "none", msg |-> "", status_code |-> 0,
              retryable |-> FALSE]

Returned == [state |-> "returned", msg |-> "", status_code |-> 0,
             retryable |-> FALSE]

\* No VantaClient has been constructed yet.
InitVanta ==
    /\ vcPc = "new"
    /\ vcOAuth = FALSE
    /\ vcCursor = 0
    /\ vcReauths = 0
    /\ vcOut = NoOutcome
    /\ nVcFetch = 0

\* Characters of resource ARNs and of mapping patterns.
Chars == {"a", "b"}

\* The strings of at most n characters.
TextsUpTo(n) == UNION {[1..k -> Chars] : k \in 0..n}

\* The key "default" of github_repo_mapping (no ARN starts with it).
DefaultKey == <<"default">>

\* Repository names; "" is what parse_github_repo_mapping puts under
\* "default" when nothing is configured.
Repos == {"org/a", "org/b", ""}

\* get_repo_for_resource returning None
NoRepo == "None"

\* No lookup is under way.
InitConfigIdle ==
    /\ cfgMapping = <<>>
    /\ cfgArn = <<>>
    /\ cfgResult = "unset"

\* create_remediation_pr has not reached the call yet.
NotYetRaised == [kind |-> "unset", retryable |-> FALSE, msg |-> ""]

\* No GitHub call is being looked at.
InitGhIdle ==
    /\ ghOp = "none"
    /\ ghStatus = 0
    /\ ghRaised = NotYetRaised
    /\ ghAttempt = 0
    /\ ghRetry = "unset"

\* The clone has not raised (yet).
NoCloneError == [kind |-> "unset", retryable |-> FALSE, msg |-> <<>>]

\* The clone returned without raising.
NoCloneRaised == [kind |-> "none", retryable |-> FALSE, msg |-> <<>>]

\* No clone has been started.
InitClone ==
    /\ clPc = "idle"
    /\ clBy = "none"
    /\ clRepo = "none"
    /\ clArgv = <<>>
    /\ clScript = <<>>
    /\ clLog = {}
    /\ clRaised = NoCloneError
    /\ nClones = 0

\* No POST request has been handled.
NoPost == [path |-> "none", body |-> "none", status |-> 0]

\* _stats = MockProcessingStats() and no request yet.
InitStats ==
    /\ _stats = [total_requests |-> 0, successful_requests |-> 0,
                 failed_requests |-> 0, total_latency_ms |-> 0,
                 latencies |-> <<>>]
    /\ nPosts = 0
    /\ lastPost = NoPost

\* No fingerprint is being computed.
InitHashIdle ==
    /\ fhV1 = <<>>
    /\ fhV2 = <<>>
    /\ fhHash = <<>>

\* Timer name and label set of a timing: one stage without labels, and the
\* same stage with a label.
TimerKeys == {"bedrock_inference", "bedrock_inference{model}"}

\* MetricsCollector.__init__: _timings = defaultdict(list)
InitMetrics ==
    /\ _timings = [k \in TimerKeys |-> <<>>]
    /\ mtCount = [k \in TimerKeys |-> 0]

\* The intervals_elapsed values a run can see.
GenIntervals == 0..((duration_seconds - 1) \div interval_seconds)

\* generate_stream is entered: start_time = time.time(), elapsed = 0.0,
\* and the ExperimentResult is new.
InitGenerator ==
    /\ genPc = "loop_test"
    /\ genElapsed = 0
    /\ genSleeps = 0
    /\ genBusy = 0
    /\ genLeft = 0
    /\ genInterval = 0
    /\ genEmitted = [i \in GenIntervals |-> 0]
    /\ total_generated = 0

\* The stateful components outside the service loop, as constructed.
InitComponents ==
    /\ InitLimiter
    /\ InitVanta
    /\ InitClone
    /\ InitStats
    /\ InitMetrics
    /\ InitGenerator

\* The inputs of the pure functions, when none is being applied.
InitInputs ==
    /\ InitConfigIdle
    /\ InitGhIdle
    /\ InitHashIdle

\* The components outside the service loop, as constructed.
InitOther ==
    /\ InitComponents
    /\ InitInputs

InitAux ==
    /\ InitReadiness
    /\ InitOther

\* run_service_loop at its start: last_check = now - 1 h, flag clear.
InitLoop ==
    /\ now = StartTime
    /\ last_check = StartTime - HourSeconds
    /\ cycle_start = StartTime
    /\ sleepLeft = 0
    /\ shutdown = FALSE
    /\ monitor = {}
    /\ fetched = {}
    /\ task = [id \in ViolationIds |-> NoTask]
    /\ results = <<>>

InitService ==
    /\ svcPc = "loop_head"
    /\ InitLoop
    /\ InitAux

\* A pool of which the workers in active run (max_concurrent_workers).
InitWorkers(active) ==
    /\ pc = [w \in Workers |-> IF w \in active THEN "idle" ELSE "off"]
    /\ cur = [w \in Workers |-> CHOOSE f \in Failures : TRUE]
    /\ gateSeen = [w \in Workers |-> "none"]
    /\ attempts = [w \in Workers |-> 0]
    /\ sleeps = [w \in Workers |-> <<>>]
    /\ lastErr = [w \in Workers |-> NoError]
    /\ existing = [w \in Workers |-> Absent]
    /\ retUrl = [w \in Workers |-> NoUrl]
    /\ effects = [w \in Workers |-> {}]
    /\ fix = [w \in Workers |-> "none"]
    /\ storeCalls = [w \in Workers |-> <<>>]
    /\ storeErrors = [w \in Workers |-> {}]
    /\ result = [w \in Workers |-> NoResult]
    /\ claimed = [w \in Workers |-> NoClaim]
    /\ nCalls = 0
    /\ nFaults = 0
    /\ nExpire = 0

Init ==
    /\ store = [fp \in Fingerprints |-> Absent]
    /\ branches = {}
    /\ prs = [b \in BranchNames |-> 0]
    /\ storeFaulty = FALSE
    /\ reported = {f \in Failures : f.resource_arn = "arn:aws:s3:::demo"}
    /\ seeded = {}
    /\ InitWorkers(Workers)
    /\ InitService


(* --------------------------- environment ------------------------------ *)
\* Outcomes of a Redis command: TRUE it answers, FALSE it raises RedisError.
StoreOutcomes == IF storeFaulty /\ nFaults < MaxFaults THEN {TRUE, FALSE} ELSE {TRUE}

StoreCall(op, url, msg) == [op |-> op, url |-> url, msg |-> msg]

\* What can go wrong in _process_failure_once before the PR creator is
\* called, with the external calls made up to that point.
PreFaults ==
    { [err |-> GitHubError("Failed to clone repository", TRUE),
       eff |-> {"clone"}],
      [err |-> ResourceNotFoundError("Resource not found in Terraform"),
       eff |-> {"clone"}],
      [err |-> TerraformParseError("Failed to parse Terraform"),
       eff |-> {"clone"}],
      [err |-> BedrockError("ThrottlingException", TRUE),
       eff |-> {"clone", "inference"}],
      [err |-> BedrockError("AccessDeniedException", FALSE),
       eff |-> {"clone", "inference"}],
      [err |-> OtherException("unexpected"),
       eff |-> {"clone"}] }

\* What TerraformValidator.validate_configuration would answer for a
\* generated, non-empty fixed_config: is_valid True or False.  The
\* orchestrator never asks: the content goes to the PR creator as generated.
FixVerdicts == {"valid", "invalid"}

\* What generate_fix may return as fixed_config: "" (empty), whitespace
\* only (blank), or content, on which terraform validate has a verdict.
GeneratedFixes == FixVerdicts \cup {"empty", "blank"}

\* Mutant of IsEmptyFix: only the empty string is rejected.
IsEmptyFix_noStrip(fixed_config) == fixed_config = "empty"

\* not fix.fixed_config or not fix.fixed_config.strip()
IsEmptyFix(fixed_config) == fixed_config \in {"empty", "blank"}

\* raise TerraFixError("Generated fix is empty", retryable=False)
EmptyFixError == TerraFixError("Generated fix is empty", FALSE)

(* ------------------------------ retry --------------------------------- *)
Min(a, b) == IF a <= b THEN a ELSE b

\* min(INITIAL_BACKOFF_SECONDS * (2**attempt), MAX_BACKOFF_SECONDS)
Backoff(attempt) ==
    Min(INITIAL_BACKOFF_SECONDS * (2 ^ attempt), MAX_BACKOFF_SECONDS)

\* The except clause that catches e in _process_failure_with_retry.
RetryClass(e) == e.kind \in {"VantaApiError", "BedrockError", "GitHubError"}

\* Mutants of ShouldRetry: the last attempt is retried too; the retryable
\* flag is not looked at.
ShouldRetry_offByOne(e, attempt) ==
    /\ RetryClass(e)
    /\ ~(~e.retryable \/ attempt >= MAX_RETRIES)

ShouldRetry_ignoresFlag(e, attempt) ==
    /\ RetryClass(e)
    /\ ~(attempt >= MAX_RETRIES - 1)

\* not (not e.retryable or attempt >= MAX_RETRIES - 1), attempt counted from 0
ShouldRetry(e, attempt) ==
    /\ RetryClass(e)
    /\ ~(~e.retryable \/ attempt >= MAX_RETRIES - 1)

\* An exception e leaves _process_failure_once in the attempt numbered
\* attempt (from 0): sleep and loop, or propagate to process_failure's
\* except clause, which goes on to mark_failed.
AttemptRaises(w, e, attempt) ==
    /\ lastErr' = [lastErr EXCEPT ![w] = e]
    /\ IF ShouldRetry(e, attempt)
       THEN /\ sleeps' = [sleeps EXCEPT ![w] = Append(@, Backoff(attempt))]
            /\ pc' = [pc EXCEPT ![w] = "attempt"]
       ELSE /\ sleeps' = sleeps
            /\ pc' = [pc EXCEPT ![w] = "mark_failed"]

(* ------------------------- process_failure ---------------------------- *)
\* process_failure up to the deduplication gate: fingerprint, then
\* is_already_processed (one Redis GET).
StartGate(w, failure) ==
    /\ pc[w] \in {"idle", "done"}
    /\ nCalls < MaxCalls
    /\ nCalls' = nCalls + 1
    /\ cur' = [cur EXCEPT ![w] = failure]
    /\ attempts' = [attempts EXCEPT ![w] = 0]
    /\ sleeps' = [sleeps EXCEPT ![w] = <<>>]
    /\ lastErr' = [lastErr EXCEPT ![w] = NoError]
    /\ existing' = [existing EXCEPT ![w] = Absent]
    /\ retUrl' = [retUrl EXCEPT ![w] = NoUrl]
    /\ effects' = [effects EXCEPT ![w] = {}]
    /\ fix' = [fix EXCEPT ![w] = "none"]
    /\ storeCalls' = [storeCalls EXCEPT ![w] = <<>>]
    /\ \E ok \in StoreOutcomes :
         LET record == store[generate_failure_hash(failure)] IN
         IF ~ok
         THEN /\ gateSeen' = [gateSeen EXCEPT ![w] = "error"]
              /\ storeErrors' = [storeErrors EXCEPT ![w] =
                                    {"is_already_processed"}]
              /\ result' = [result EXCEPT ![w] =
                     RaisedResult("Failed to check processing status")]
              /\ pc' = [pc EXCEPT ![w] = "done"]
              /\ nFaults' = nFaults + 1
         ELSE /\ gateSeen' = [gateSeen EXCEPT ![w] = record.status]
              /\ storeErrors' = [storeErrors EXCEPT ![w] = {}]
              /\ nFaults' = nFaults
              /\ IF AlreadyProcessed(record)
                 THEN /\ result' = [result EXCEPT ![w] =
                             ProcessingResult(TRUE, NoUrl, "", TRUE)]
                      /\ pc' = [pc EXCEPT ![w] = "done"]
                 ELSE /\ result' = [result EXCEPT ![w] = NoResult]
                      /\ pc' = [pc EXCEPT ![w] = "mark_in_progress"]
    /\ UNCHANGED <<store, branches, prs, storeFaulty, claimed, reported, seeded, nExpire>>
    /\ UNCHANGED <<svcVars, auxVars>>

\* Mutant of MarkInProgress: the call is not wrapped in try/except, so a
\* store error leaves process_failure.
MarkInProgress_propagates(w) ==
    /\ pc[w] = "mark_in_progress"
    /\ storeCalls' = [storeCalls EXCEPT ![w] =
                         Append(@, StoreCall("mark_in_progress", NoUrl, ""))]
    /\ \E ok \in StoreOutcomes :
         IF ok
         THEN /\ store' = [store EXCEPT ![generate_failure_hash(cur[w])] =
                              InProgressRecord]
              /\ nFaults' = nFaults
              /\ UNCHANGED storeErrors
              /\ pc' = [pc EXCEPT ![w] = "attempt"]
              /\ UNCHANGED result
         ELSE /\ store' = store
              /\ nFaults' = nFaults + 1
              /\ storeErrors' = [storeErrors EXCEPT ![w] =
                                    @ \cup {"mark_in_progress"}]
              /\ pc' = [pc EXCEPT ![w] = "done"]
              /\ result' = [result EXCEPT ![w] =
                               RaisedResult("Failed to mark in progress")]
    /\ UNCHANGED <<branches, prs, storeFaulty, fix, cur, gateSeen, attempts, sleeps,
                   lastErr, existing, retUrl, effects, claimed,
                   reported, seeded, nCalls, nExpire>>
    /\ UNCHANGED <<svcVars, auxVars>>

\* state_store.mark_in_progress inside try/except Exception: one Redis SET
\* of a whole new record; a failure is logged and processing continues.
MarkInProgress(w) ==
    /\ pc[w] = "mark_in_progress"
    /\ storeCalls' = [storeCalls EXCEPT ![w] =
                         Append(@, StoreCall("mark_in_progress", NoUrl, ""))]
    /\ \E ok \in StoreOutcomes :
         IF ok
         THEN /\ store' = [store EXCEPT ![generate_failure_hash(cur[w])] =
                              InProgressRecord]
              /\ nFaults' = nFaults
              /\ UNCHANGED storeErrors
         ELSE /\ store' = store
              /\ nFaults' = nFaults + 1
              /\ storeErrors' = [storeErrors EXCEPT ![w] =
                                    @ \cup {"mark_in_progress"}]
    /\ pc' = [pc EXCEPT ![w] = "attempt"]
    /\ UNCHANGED <<branches, prs, storeFaulty, fix, cur, gateSeen, attempts, sleeps,
                   lastErr, existing, retUrl, effects, result, claimed,
                   reported, seeded, nCalls, nExpire>>
    /\ UNCHANGED <<svcVars, auxVars>>


(* ================== Settings.get_repo_for_resource ==================== *)
\* str.startswith
StartsWith(text, prefix) ==
    /\ Len(prefix) <= Len(text)
    /\ \A i \in 1..Len(prefix) : text[i] = prefix[i]

\* The keys a mapping may have: patterns and "default".
MappingKeys == TextsUpTo(MaxLen) \cup {DefaultKey}

\* The dictionaries of at most MaxEntries entries, as sequences of
\* [pattern, repo] in insertion order (keys are distinct).
Mappings ==
    {m \in UNION {[1..k -> [pattern : MappingKeys, repo : Repos]]
                  : k \in 0..MaxEntries} :
        \A i, j \in 1..Len(m) : i # j => m[i].pattern # m[j].pattern}

\* Positions of the entries whose key satisfies a condition.
ExactAt(mapping, arn) == {i \in 1..Len(mapping) : mapping[i].pattern = arn}

PrefixAt(mapping, arn) ==
    {i \in 1..Len(mapping) :
        mapping[i].pattern # DefaultKey /\ StartsWith(arn, mapping[i].pattern)}

DefaultAt(mapping) == {i \in 1..Len(mapping) : mapping[i].pattern = DefaultKey}

MinOf(S) == CHOOSE x \in S : \A y \in S : x <= y

\* Settings.get_repo_for_resource: the exact entry; else the first entry,
\* in the dictionary's order, whose pattern the ARN starts with; else the
\* default if it is non-empty; else None.
get_repo_for_resource(mapping, arn) ==
    IF ExactAt(mapping, arn) # {}
    THEN mapping[MinOf(ExactAt(mapping, arn))].repo
    ELSE IF PrefixAt(mapping, arn) # {}
    THEN mapping[MinOf(PrefixAt(mapping, arn))].repo
    ELSE IF DefaultAt(mapping) # {}
            /\ mapping[MinOf(DefaultAt(mapping))].repo # ""
    THEN mapping[MinOf(DefaultAt(mapping))].repo
    ELSE NoRepo

\* The configuration the pipeline runs with: one pattern, which covers
\* the demo bucket and, as a prefix, the demo-logs bucket, and no default.
ArnText(arn) ==
    CASE arn = "arn:aws:s3:::demo" -> <<"a">>
      [] arn = "arn:aws:s3:::demo-logs" -> <<"a", "b">>
      [] OTHER -> <<"b">>

github_repo_mapping == << [pattern |-> <<"a">>, repo |-> "org/a"] >>

\* repo_full_name = config.get_repo_for_resource(failure.resource_arn)
RepoFor(failure) ==
    get_repo_for_resource(github_repo_mapping, ArnText(failure.resource_arn))

\* Mutant of NoMappingError: the missing mapping is reported as a
\* retryable error.
NoMappingError_retryable ==
    GitHubError("No repository mapping found", TRUE)

\* raise ResourceNotFoundError(f"No repository mapping found for {arn}")
NoMappingError == ResourceNotFoundError("No repository mapping found")

(* ----------------------- _process_failure_once ------------------------ *)
DuplicateBranchMsg == "Failed to create PR (duplicate branch)"

\* Mutant of DuplicateBranchError: retryable is left at GitHubError's
\* default, True.
DuplicateBranchError_defaultRetryable == GitHubError(DuplicateBranchMsg, TRUE)

\* if not pr_url: raise GitHubError("Failed to create PR (duplicate branch)",
\* retryable=False)
DuplicateBranchError == GitHubError(DuplicateBranchMsg, FALSE)

\* One iteration of the retry loop, from its start to the PR creator's
\* branch-existence check: repository lookup, clone, analysis, inference,
\* empty-fix check and fmt (none of which touches the store or the
\* branches), then create_remediation_pr's get_repo and get_branch.  An
\* existing branch makes create_remediation_pr return "", which
\* _process_failure_once turns into a non-retryable GitHubError.
AttemptPre(w) ==
    /\ pc[w] = "attempt"
    /\ attempts' = [attempts EXCEPT ![w] = IF @ < MAX_RETRIES THEN @ + 1 ELSE @]
    /\ \/ /\ attempts[w] >= MAX_RETRIES   \* range(MAX_RETRIES) is exhausted:
          /\ pc' = [pc EXCEPT ![w] = "mark_failed"]   \* raise last_exception
          /\ UNCHANGED <<sleeps, lastErr, effects, fix, nFaults>>
       \/ /\ attempts[w] < MAX_RETRIES   \* if not repo_full_name: raise
          /\ RepoFor(cur[w]) = NoRepo
          /\ fix' = [fix EXCEPT ![w] = "none"]
          /\ AttemptRaises(w, NoMappingError, attempts[w])
          /\ UNCHANGED <<effects, nFaults>>
       \/ /\ attempts[w] < MAX_RETRIES
          /\ RepoFor(cur[w]) # NoRepo
          /\ nFaults < MaxFaults
          /\ nFaults' = nFaults + 1
          /\ fix' = [fix EXCEPT ![w] = "none"]
          /\ \E f \in PreFaults :
               /\ effects' = [effects EXCEPT ![w] = @ \cup f.eff]
               /\ AttemptRaises(w, f.err, attempts[w])
       \/ /\ attempts[w] < MAX_RETRIES
          /\ RepoFor(cur[w]) # NoRepo   \* the generated fix is empty
          /\ nFaults < MaxFaults
          /\ nFaults' = nFaults + 1
          /\ effects' = [effects EXCEPT ![w] = @ \cup {"clone", "inference"}]
          /\ \E v \in GeneratedFixes :
               IsEmptyFix(v) /\ fix' = [fix EXCEPT ![w] = v]
          /\ AttemptRaises(w, EmptyFixError, attempts[w])
       \/ /\ attempts[w] < MAX_RETRIES
          /\ RepoFor(cur[w]) # NoRepo
          /\ nFaults < MaxFaults
          /\ nFaults' = nFaults + 1
          /\ effects' = [effects EXCEPT ![w] = @ \cup {"clone", "inference"}]
          /\ \E v \in GeneratedFixes :
               ~IsEmptyFix(v) /\ fix' = [fix EXCEPT ![w] = v]
          /\ \E e \in {GitHubError("Repository not found", FALSE),
                       _handle_github_exception(500, "get_repo"),
                       OtherException("GithubException")} :
               AttemptRaises(w, e, attempts[w])
       \/ /\ attempts[w] < MAX_RETRIES
          /\ RepoFor(cur[w]) # NoRepo
          /\ _generate_branch_name(cur[w]) \in branches
          /\ effects' = [effects EXCEPT ![w] = @ \cup {"clone", "inference"}]
          /\ \E v \in GeneratedFixes :
               ~IsEmptyFix(v) /\ fix' = [fix EXCEPT ![w] = v]
          /\ AttemptRaises(w, DuplicateBranchError, attempts[w])
          /\ UNCHANGED nFaults
       \/ /\ attempts[w] < MAX_RETRIES
          /\ RepoFor(cur[w]) # NoRepo
          /\ _generate_branch_name(cur[w]) \notin branches
          /\ effects' = [effects EXCEPT ![w] = @ \cup {"clone", "inference"}]
          /\ \E v \in GeneratedFixes :
               ~IsEmptyFix(v) /\ fix' = [fix EXCEPT ![w] = v]
          /\ pc' = [pc EXCEPT ![w] = "create_git_ref"]
          /\ UNCHANGED <<sleeps, lastErr, nFaults>>
    /\ UNCHANGED <<store, branches, prs, storeFaulty, storeErrors, cur, gateSeen, existing,
                   retUrl, storeCalls, result, claimed, reported,
                   seeded, nCalls, nExpire>>
    /\ UNCHANGED <<svcVars, auxVars>>

(* ---------------- GitHubPRCreator.create_remediation_pr --------------- *)
\* get_git_ref(base) and create_git_ref(refs/heads/<branch>): GitHub creates
\* the ref atomically and answers 422 when it already exists.
CreateGitRef(w) ==
    /\ pc[w] = "create_git_ref"
    /\ LET b == _generate_branch_name(cur[w]) IN
       \/ /\ b \in branches
          /\ AttemptRaises(w, _handle_github_exception(422, "create_pr"),
                           attempts[w] - 1)
          /\ UNCHANGED <<branches, effects, nFaults>>
       \/ /\ b \notin branches
          /\ branches' = branches \cup {b}
          /\ effects' = [effects EXCEPT ![w] = @ \cup {"branch"}]
          /\ pc' = [pc EXCEPT ![w] = "create_pull"]
          /\ UNCHANGED <<sleeps, lastErr, nFaults>>
       \/ /\ nFaults < MaxFaults
          /\ nFaults' = nFaults + 1
          /\ \E s \in GhFaultStatuses :
               AttemptRaises(w, _handle_github_exception(s, "create_pr"),
                             attempts[w] - 1)
          /\ UNCHANGED <<branches, effects>>
    /\ UNCHANGED <<store, prs, storeFaulty, storeErrors, fix, cur, gateSeen, attempts, existing,
                   retUrl, storeCalls, result, claimed, reported,
                   seeded, nCalls, nExpire>>
    /\ UNCHANGED <<svcVars, auxVars>>

PrUrl(branch, number) == <<branch, number>>

\* get_contents, update_file, create_pull, labels: the pull request is
\* opened, or a GithubException leaves the new branch behind.
CreatePull(w) ==
    /\ pc[w] = "create_pull"
    /\ LET b == _generate_branch_name(cur[w]) IN
       \/ /\ prs' = [prs EXCEPT ![b] = @ + 1]
          /\ retUrl' = [retUrl EXCEPT ![w] = PrUrl(b, prs[b] + 1)]
          /\ effects' = [effects EXCEPT ![w] = @ \cup {"pr"}]
          /\ pc' = [pc EXCEPT ![w] = "mark_processed"]
          /\ UNCHANGED <<sleeps, lastErr, nFaults>>
       \/ /\ nFaults < MaxFaults
          /\ nFaults' = nFaults + 1
          /\ \E s \in GhFaultStatuses :
               AttemptRaises(w, _handle_github_exception(s, "create_pr"),
                             attempts[w] - 1)
          /\ UNCHANGED <<prs, retUrl, effects>>
    /\ UNCHANGED <<store, branches, storeFaulty, storeErrors, fix, cur, gateSeen, attempts,
                   existing, storeCalls, result, claimed, reported,
                   seeded, nCalls, nExpire>>
    /\ UNCHANGED <<svcVars, auxVars>>


(* ------------------ process_failure: recording the outcome ------------ *)
\* state_store.mark_processed(failure_hash, pr_url), first half: the Redis
\* GET of the existing record.  A RedisError becomes a StateStoreError that
\* process_failure's except Exception clause handles like an attempt error.
MarkProcessedGet(w) ==
    /\ pc[w] = "mark_processed"
    /\ storeCalls' = [storeCalls EXCEPT ![w] =
                         Append(@, StoreCall("mark_processed", retUrl[w], ""))]
    /\ \E ok \in StoreOutcomes :
         IF ok
         THEN /\ existing' = [existing EXCEPT ![w] =
                                 store[generate_failure_hash(cur[w])]]
              /\ pc' = [pc EXCEPT ![w] = "mark_processed_set"]
              /\ UNCHANGED <<lastErr, nFaults, storeErrors>>
         ELSE /\ lastErr' = [lastErr EXCEPT ![w] =
                                StateStoreError("Failed to mark processed")]
              /\ pc' = [pc EXCEPT ![w] = "mark_failed"]
              /\ nFaults' = nFaults + 1
              /\ storeErrors' = [storeErrors EXCEPT ![w] =
                                    @ \cup {"mark_processed"}]
              /\ UNCHANGED existing
    /\ UNCHANGED <<store, branches, prs, storeFaulty, fix, cur, gateSeen, attempts,
                   sleeps, retUrl, effects, result, claimed, reported,
                   seeded, nCalls, nExpire>>
    /\ UNCHANGED <<svcVars, auxVars>>

\* mark_processed, second half: the Redis SET of the completed record, then
\* process_failure returns ProcessingResult(success=True, pr_url=pr_url).
MarkProcessedSet(w) ==
    /\ pc[w] = "mark_processed_set"
    /\ \E ok \in StoreOutcomes :
         IF ok
         THEN /\ store' = [store EXCEPT ![generate_failure_hash(cur[w])] =
                              CompletedRecord(existing[w], retUrl[w])]
              /\ result' = [result EXCEPT ![w] =
                               ProcessingResult(TRUE, retUrl[w], "", FALSE)]
              /\ pc' = [pc EXCEPT ![w] = "done"]
              /\ UNCHANGED <<lastErr, nFaults, storeErrors>>
         ELSE /\ lastErr' = [lastErr EXCEPT ![w] =
                                StateStoreError("Failed to mark processed")]
              /\ pc' = [pc EXCEPT ![w] = "mark_failed"]
              /\ nFaults' = nFaults + 1
              /\ storeErrors' = [storeErrors EXCEPT ![w] =
                                    @ \cup {"mark_processed"}]
              /\ UNCHANGED <<store, result>>
    /\ UNCHANGED <<branches, prs, storeFaulty, fix, cur, gateSeen, attempts, sleeps,
                   existing, retUrl, effects, storeCalls, claimed, reported, seeded, nCalls,
                   nExpire>>
    /\ UNCHANGED <<svcVars, auxVars>>

\* Mutant of FailureResult: the error is reported as a success.
FailureResult_success(error_msg) == ProcessingResult(TRUE, NoUrl, error_msg, FALSE)

\* The result process_failure returns from its except clause.
FailureResult(error_msg) == ProcessingResult(FALSE, NoUrl, error_msg, FALSE)

\* except Exception as e: error_msg = str(e); state_store.mark_failed(hash,
\* error_msg), first half: the Redis GET.  An exception of mark_failed is
\* logged and swallowed; the failure result is returned either way.
MarkFailedGet(w) ==
    /\ pc[w] = "mark_failed"
    /\ storeCalls' = [storeCalls EXCEPT ![w] =
                         Append(@, StoreCall("mark_failed", NoUrl, lastErr[w].msg))]
    /\ \E ok \in StoreOutcomes :
         IF ok
         THEN /\ existing' = [existing EXCEPT ![w] =
                                 store[generate_failure_hash(cur[w])]]
              /\ pc' = [pc EXCEPT ![w] = "mark_failed_set"]
              /\ UNCHANGED <<result, nFaults, storeErrors>>
         ELSE /\ result' = [result EXCEPT ![w] = FailureResult(lastErr[w].msg)]
              /\ pc' = [pc EXCEPT ![w] = "done"]
              /\ nFaults' = nFaults + 1
              /\ storeErrors' = [storeErrors EXCEPT ![w] =
                                    @ \cup {"mark_failed"}]
              /\ UNCHANGED existing
    /\ UNCHANGED <<store, branches, prs, storeFaulty, fix, cur, gateSeen, attempts,
                   sleeps, lastErr, retUrl, effects, claimed, reported,
                   seeded, nCalls, nExpire>>
    /\ UNCHANGED <<svcVars, auxVars>>

\* mark_failed, second half: the Redis SET of the failed record.
MarkFailedSet(w) ==
    /\ pc[w] = "mark_failed_set"
    /\ \E ok \in StoreOutcomes :
         IF ok
         THEN /\ store' = [store EXCEPT ![generate_failure_hash(cur[w])] =
                              FailedRecord(existing[w], lastErr[w].msg)]
              /\ UNCHANGED <<nFaults, storeErrors>>
         ELSE /\ nFaults' = nFaults + 1
              /\ storeErrors' = [storeErrors EXCEPT ![w] =
                                    @ \cup {"mark_failed"}]
              /\ UNCHANGED store
    /\ result' = [result EXCEPT ![w] = FailureResult(lastErr[w].msg)]
    /\ pc' = [pc EXCEPT ![w] = "done"]
    /\ UNCHANGED <<branches, prs, storeFaulty, fix, cur, gateSeen, attempts, sleeps,
                   lastErr, existing, retUrl, effects, storeCalls, claimed,
                   reported, seeded, nCalls, nExpire>>
    /\ UNCHANGED <<svcVars, auxVars>>

(* --------------------------- Redis TTL -------------------------------- *)
\* A key whose TTL (ttl_days) ran out is deleted by Redis; a key without an
\* expiry stays.
Expire(fp) ==
    /\ store[fp].status # "absent"
    /\ store[fp].ex > 0
    /\ nExpire < MaxExpire
    /\ nExpire' = nExpire + 1
    /\ store' = [store EXCEPT ![fp] = Absent]
    /\ UNCHANGED <<branches, prs, storeFaulty, storeErrors, fix, pc, cur, gateSeen, attempts,
                   sleeps, lastErr, existing, retUrl, effects, storeCalls,
                   result, claimed, reported, seeded, nCalls, nFaults>>
    /\ UNCHANGED <<svcVars, auxVars>>

(* ------------------------ the worker pool ----------------------------- *)
Next ==
    \/ \E w \in Workers : \E f \in reported : StartGate(w, f)
    \/ \E w \in Workers : MarkInProgress(w)
    \/ \E w \in Workers : AttemptPre(w)
    \/ \E w \in Workers : CreateGitRef(w)
    \/ \E w \in Workers : CreatePull(w)
    \/ \E w \in Workers : MarkProcessedGet(w)
    \/ \E w \in Workers : MarkProcessedSet(w)
    \/ \E w \in Workers : MarkFailedGet(w)
    \/ \E w \in Workers : MarkFailedSet(w)
    \/ \E fp \in Fingerprints : Expire(fp)

\* Redis answers every command.
Spec == Init /\ [][Next]_vars


(* ------------------ RedisStateStore.check_and_claim ------------------- *)
\* Mutant of SetNx: a plain SET, which always succeeds.
SetNx_plainSet(record) == TRUE

\* client.set(key, record, nx=True, ex=ttl): TRUE iff the key did not exist.
SetNx(record) == record.status = "absent"

\* check_and_claim(failure_hash): one atomic Redis SET NX EX.
CheckAndClaim(w, fp) ==
    /\ ~claimed[w].called
    /\ claimed' = [claimed EXCEPT ![w] =
                      [fp |-> fp, called |-> TRUE, ok |-> SetNx(store[fp])]]
    /\ store' = [store EXCEPT ![fp] = IF SetNx(@) THEN ClaimRecord ELSE @]
    /\ UNCHANGED <<branches, prs, storeFaulty, storeErrors, fix, pc, cur, gateSeen, attempts,
                   sleeps, lastErr, existing, retUrl, effects, storeCalls,
                   result, reported, seeded, nCalls, nFaults, nExpire>>
    /\ UNCHANGED <<svcVars, auxVars>>

\* Records the pipeline leaves in the store.
SeedRecords ==
    { Absent,
      InProgressRecord,
      CompletedRecord(InProgressRecord, PrUrl(<<"terrafix", "t1">>, 1)),
      FailedRecord(InProgressRecord, "Failed to clone repository") }

\* N callers of check_and_claim against a store in any state the pipeline
\* can have left it in.
InitClaim ==
    /\ store \in [Fingerprints -> SeedRecords]
    /\ seeded = {fp \in Fingerprints : store[fp].status # "absent"}
    /\ branches = {}
    /\ prs = [b \in BranchNames |-> 0]
    /\ storeFaulty = FALSE
    /\ reported = {}
    /\ InitWorkers(Workers)
    /\ InitService

NextClaim ==
    \/ \E w \in Workers : \E fp \in Fingerprints : CheckAndClaim(w, fp)
    \/ \E fp \in Fingerprints : Expire(fp)

SpecClaim == InitClaim /\ [][NextClaim]_vars


\* Redis may raise on any command (RedisError -> StateStoreError).
InitStoreFaults ==
    /\ store = [fp \in Fingerprints |-> Absent]
    /\ branches = {}
    /\ prs = [b \in BranchNames |-> 0]
    /\ storeFaulty = TRUE
    /\ reported = {f \in Failures : f.resource_arn = "arn:aws:s3:::demo"}
    /\ seeded = {}
    /\ InitWorkers(Workers)
    /\ InitService

SpecStoreFaults == InitStoreFaults /\ [][Next]_vars

\* What earlier runs of the pipeline can have left behind for a fingerprint:
\* its record, with the branch and the pull requests of its test.
SeedStates ==
    { [record |-> Absent, branch |-> FALSE, prs |-> 0],
      [record |-> InProgressRecord, branch |-> FALSE, prs |-> 0],
      [record |-> InProgressRecord, branch |-> TRUE, prs |-> 0],
      [record |-> CompletedRecord(InProgressRecord, PrUrl(<<"terrafix", "t1">>, 1)),
       branch |-> TRUE, prs |-> 1],
      [record |-> FailedRecord(InProgressRecord, "Failed to clone repository"),
       branch |-> FALSE, prs |-> 0],
      [record |-> FailedRecord(InProgressRecord, "GitHub API error during create_pr: 500"),
       branch |-> TRUE, prs |-> 0] }

\* One worker (max_concurrent_workers = 1) polling a store that earlier runs
\* have written to.
InitOneWorker ==
    /\ reported = {f \in Failures : f.resource_arn = "arn:aws:s3:::demo"}
    /\ \E seed \in SeedStates :
         /\ store = [fp \in Fingerprints |->
                        IF \E f \in reported : generate_failure_hash(f) = fp
                        THEN seed.record ELSE Absent]
         /\ branches = IF seed.branch THEN BranchNames ELSE {}
         /\ prs = [b \in BranchNames |-> seed.prs]
    /\ seeded = {fp \in Fingerprints : store[fp].status # "absent"}
    /\ storeFaulty = FALSE
    /\ InitWorkers({1})
    /\ InitService

SpecOneWorker == InitOneWorker /\ [][Next]_vars

\* One worker; the monitor also reports a violation of a resource that the
\* repository mapping does not cover.
InitOneWorkerAnyArn ==
    /\ reported = Failures
    /\ \E seed \in SeedStates :
         /\ store = [fp \in Fingerprints |->
                        IF \E f \in reported : generate_failure_hash(f) = fp
                        THEN seed.record ELSE Absent]
         /\ branches = IF seed.branch THEN BranchNames ELSE {}
         /\ prs = [b \in BranchNames |-> seed.prs]
    /\ seeded = {fp \in Fingerprints : store[fp].status # "absent"}
    /\ storeFaulty = FALSE
    /\ InitWorkers({1})
    /\ InitService

SpecOneWorkerAnyArn == InitOneWorkerAnyArn /\ [][Next]_vars

\* One worker against a Redis that may raise on any command.
InitOneWorkerStoreFaults ==
    /\ reported = {f \in Failures : f.resource_arn = "arn:aws:s3:::demo"}
    /\ \E seed \in SeedStates :
         /\ store = [fp \in Fingerprints |->
                        IF \E f \in reported : generate_failure_hash(f) = fp
                        THEN seed.record ELSE Absent]
         /\ branches = IF seed.branch THEN BranchNames ELSE {}
         /\ prs = [b \in BranchNames |-> seed.prs]
    /\ seeded = {fp \in Fingerprints : store[fp].status # "absent"}
    /\ storeFaulty = TRUE
    /\ InitWorkers({1})
    /\ InitService

SpecOneWorkerStoreFaults == InitOneWorkerStoreFaults /\ [][Next]_vars

(* ========================== the service loop ========================== *)
Max(a, b) == IF a >= b THEN a ELSE b

\* VantaClient.get_failing_tests(since): the failures whose failed_at is
\* later than since.
get_failing_tests_since(since) == {v \in monitor : v.failed_at > since}

IdsOf(violations) == {v.id : v \in violations}

\* What a future of the pool ends with: process_failure returned a result
\* (PR created, skipped, failed) or raised.
TaskOutcomes ==
    { ProcessingResult(TRUE, PrUrl(<<"terrafix", "t1">>, 1), "", FALSE),
      ProcessingResult(TRUE, NoUrl, "", TRUE),
      FailureResult("Failed to clone repository"),
      RaisedResult("Failed to check processing status") }

\* The result process_failures_concurrent appends for a finished future:
\* future.result(), or on an exception a failure result with str(e).
CollectedResult(out) ==
    IF out.state = "raised" THEN FailureResult(out.error) ELSE out

Submitted == {id \in ViolationIds : task[id].st # "none"}

\* Mutant of PoolDone: the pool is left as soon as shutdown is requested.
PoolDone_orShutdown ==
    shutdown \/ \A id \in Submitted : task[id].st = "collected"

\* as_completed has yielded every future and the executor's with-block
\* (shutdown(wait=True)) is left.
PoolDone == \A id \in Submitted : task[id].st = "collected"

\* Mutant of SleepBreaks: the sleep loop does not look at the flag.
SleepBreaks_never == FALSE

\* if _shutdown_requested: break
SleepBreaks == shutdown

\* while not _shutdown_requested: ... cycle_start = time.time()
LoopHead ==
    /\ svcPc = "loop_head"
    /\ IF shutdown
       THEN /\ svcPc' = "exited"
            /\ UNCHANGED cycle_start
       ELSE /\ svcPc' = "fetch"
            /\ cycle_start' = now
    /\ UNCHANGED <<now, last_check, sleepLeft, shutdown, monitor, fetched,
                   task, results>>
    /\ UNCHANGED <<pipeVars, auxVars>>

\* failures = vanta.get_failing_tests_since(last_check); a VantaApiError
\* goes to the cycle's except Exception clause.  A non-empty list is handed
\* to process_failures_concurrent, which submits it to the pool, or raises
\* before it has submitted anything (ThreadPoolExecutor(max_workers=...)
\* refuses max_workers), which goes to the except clause too.
Fetch ==
    /\ svcPc = "fetch"
    /\ \/ /\ svcPc' = "cycle_error"
          /\ UNCHANGED <<fetched, task, results>>
       \/ LET failures == get_failing_tests_since(last_check) IN
          /\ failures # {}
          /\ fetched' = fetched \cup IdsOf(failures)
          /\ svcPc' = "cycle_error"
          /\ UNCHANGED <<task, results>>
       \/ LET failures == get_failing_tests_since(last_check) IN
          /\ fetched' = fetched \cup IdsOf(failures)
          /\ results' = <<>>
          /\ task' = [id \in ViolationIds |->
                        IF id \in IdsOf(failures)
                        THEN [st |-> "queued", out |-> NoResult]
                        ELSE NoTask]
          /\ svcPc' = IF failures = {} THEN "update_last_check" ELSE "pool"
    /\ UNCHANGED <<now, last_check, cycle_start, sleepLeft, shutdown, monitor>>
    /\ UNCHANGED <<pipeVars, auxVars>>

\* A pool thread picks up a submitted future (at most max_workers run).
TaskStart(id) ==
    /\ svcPc = "pool"
    /\ task[id].st = "queued"
    /\ Cardinality({i \in ViolationIds : task[i].st = "running"}) < NumWorkers
    /\ task' = [task EXCEPT ![id].st = "running"]
    /\ UNCHANGED <<svcPc, now, last_check, cycle_start, sleepLeft, shutdown,
                   monitor, fetched, results>>
    /\ UNCHANGED <<pipeVars, auxVars>>

\* process_failure ends in the pool thread.
TaskFinish(id) ==
    /\ svcPc = "pool"
    /\ task[id].st = "running"
    /\ \E out \in TaskOutcomes :
         task' = [task EXCEPT ![id] = [st |-> "finished", out |-> out]]
    /\ UNCHANGED <<svcPc, now, last_check, cycle_start, sleepLeft, shutdown,
                   monitor, fetched, results>>
    /\ UNCHANGED <<pipeVars, auxVars>>

\* for future in as_completed(...): results.append(...)
Collect(id) ==
    /\ svcPc = "pool"
    /\ task[id].st = "finished"
    /\ results' = Append(results,
                         [id |-> id, result |-> CollectedResult(task[id].out)])
    /\ task' = [task EXCEPT ![id].st = "collected"]
    /\ UNCHANGED <<svcPc, now, last_check, cycle_start, sleepLeft, shutdown,
                   monitor, fetched>>
    /\ UNCHANGED <<pipeVars, auxVars>>

\* return results
PoolReturn ==
    /\ svcPc = "pool"
    /\ PoolDone
    /\ svcPc' = "update_last_check"
    /\ UNCHANGED <<now, last_check, cycle_start, sleepLeft, shutdown, monitor,
                   fetched, task, results>>
    /\ UNCHANGED <<pipeVars, auxVars>>

\* last_check = datetime.now(UTC), after the pool has returned
UpdateLastCheck ==
    /\ svcPc = "update_last_check"
    /\ last_check' = now
    /\ svcPc' = "sleep_calc"
    /\ UNCHANGED <<now, cycle_start, sleepLeft, shutdown, monitor, fetched,
                   task, results>>
    /\ UNCHANGED <<pipeVars, auxVars>>

\* Mutant of CycleError: the except clause moves last_check on.
CycleError_advances ==
    /\ svcPc = "cycle_error"
    /\ svcPc' = "sleep_calc"
    /\ last_check' = now
    /\ UNCHANGED <<now, cycle_start, sleepLeft, shutdown, monitor,
                   fetched, task, results>>
    /\ UNCHANGED <<pipeVars, auxVars>>

\* except Exception as e: the error of the polling cycle is logged and the
\* loop goes on to the sleep; last_check keeps its value.
CycleError ==
    /\ svcPc = "cycle_error"
    /\ svcPc' = "sleep_calc"
    /\ UNCHANGED <<now, last_check, cycle_start, sleepLeft, shutdown, monitor,
                   fetched, task, results>>
    /\ UNCHANGED <<pipeVars, auxVars>>

\* Mutant of SleepCalc: the sleep time is not clamped at 0 and every
\* non-zero value is slept.
SleepCalc_unclamped ==
    /\ svcPc = "sleep_calc"
    /\ LET sleep_time == poll_interval_seconds - (now - cycle_start) IN
       IF ~shutdown /\ sleep_time # 0
       THEN /\ sleepLeft' = sleep_time
            /\ svcPc' = "sleep_check"
       ELSE /\ sleepLeft' = 0
            /\ svcPc' = "loop_head"
    /\ UNCHANGED <<now, last_check, cycle_start, shutdown, monitor, fetched,
                   task, results>>
    /\ UNCHANGED <<pipeVars, auxVars>>

\* sleep_time = max(0, poll_interval_seconds - cycle_duration);
\* if not _shutdown_requested and sleep_time > 0: for _ in range(int(...))
SleepCalc ==
    /\ svcPc = "sleep_calc"
    /\ LET sleep_time == Max(0, poll_interval_seconds - (now - cycle_start)) IN
       IF ~shutdown /\ sleep_time > 0
       THEN /\ sleepLeft' = sleep_time
            /\ svcPc' = "sleep_check"
       ELSE /\ sleepLeft' = 0
            /\ svcPc' = "loop_head"
    /\ UNCHANGED <<now, last_check, cycle_start, shutdown, monitor, fetched,
                   task, results>>
    /\ UNCHANGED <<pipeVars, auxVars>>

\* One iteration of the sleep loop up to time.sleep(1).
SleepCheck ==
    /\ svcPc = "sleep_check"
    /\ IF sleepLeft = 0 \/ SleepBreaks
       THEN /\ svcPc' = "loop_head"
            /\ sleepLeft' = 0
       ELSE /\ svcPc' = "in_slice"
            /\ UNCHANGED sleepLeft
    /\ UNCHANGED <<now, last_check, cycle_start, shutdown, monitor, fetched,
                   task, results>>
    /\ UNCHANGED <<pipeVars, auxVars>>

\* time.sleep(1) returns (the clock is followed up to MaxTime).
SliceEnd ==
    /\ svcPc = "in_slice"
    /\ now' = Min(now + 1, MaxTime)
    /\ sleepLeft' = sleepLeft - 1
    /\ svcPc' = "sleep_check"
    /\ UNCHANGED <<last_check, cycle_start, shutdown, monitor, fetched, task,
                   results>>
    /\ UNCHANGED <<pipeVars, auxVars>>

\* signal_handler: SIGTERM / SIGINT arrives; _shutdown_requested = True
Signal ==
    /\ ~shutdown
    /\ sigPc = "none"
    /\ svcPc \notin {"exited", "stopped"}
    /\ shutdown' = TRUE
    /\ sigPc' = "clear_ready"
    /\ UNCHANGED <<svcPc, now, last_check, cycle_start, sleepLeft, monitor,
                   fetched, task, results>>
    /\ UNCHANGED <<service_ready, hcReq, apiPc, api_is_ready, api_shutdown,
                   apiReq, nReq>>
    /\ UNCHANGED <<pipeVars, rdyRest>>

\* signal_handler, its second assignment: _service_ready = False
SignalClearReady ==
    /\ sigPc = "clear_ready"
    /\ service_ready' = FALSE
    /\ sigPc' = "done"
    /\ UNCHANGED <<hcReq, apiPc, api_is_ready, api_shutdown, apiReq,
                   nReq>>
    /\ UNCHANGED <<pipeVars, svcVars, rdyRest>>

\* The monitor detects a violation: failed_at is the time of detection.
Detect ==
    /\ Cardinality(monitor) < MaxViolations
    /\ now < MaxTime
    /\ svcPc # "exited"
    /\ monitor' = monitor \cup {[id |-> Cardinality(monitor) + 1, failed_at |-> now]}
    /\ UNCHANGED <<svcPc, now, last_check, cycle_start, sleepLeft, shutdown,
                   fetched, task, results>>
    /\ UNCHANGED <<pipeVars, auxVars>>

\* Time passes while the main thread fetches or waits for the pool.
Tick ==
    /\ svcPc \in {"fetch", "pool"}
    /\ now < MaxTime
    /\ now' = now + 1
    /\ UNCHANGED <<svcPc, last_check, cycle_start, sleepLeft, shutdown, monitor,
                   fetched, task, results>>
    /\ UNCHANGED <<pipeVars, auxVars>>

\* The steps of the service's own threads.
ServiceStep ==
    \/ LoopHead
    \/ Fetch
    \/ \E id \in ViolationIds : TaskStart(id)
    \/ \E id \in ViolationIds : TaskFinish(id)
    \/ \E id \in ViolationIds : Collect(id)
    \/ PoolReturn
    \/ UpdateLastCheck
    \/ CycleError
    \/ SleepCalc
    \/ SleepCheck
    \/ SliceEnd

NextService ==
    \/ LoopHead
    \/ Fetch
    \/ \E id \in ViolationIds : TaskStart(id)
    \/ \E id \in ViolationIds : TaskFinish(id)
    \/ \E id \in ViolationIds : Collect(id)
    \/ PoolReturn
    \/ UpdateLastCheck
    \/ CycleError
    \/ SleepCalc
    \/ SleepCheck
    \/ SliceEnd
    \/ Signal
    \/ SignalClearReady
    \/ Detect
    \/ Tick

SpecService == Init /\ [][NextService]_vars

\* The threads of the service keep running: the main thread takes its next
\* step, a sleep slice ends, a pipeline in the pool comes to its end.
SpecServiceFair == SpecService /\ WF_vars(ServiceStep)

(* ============================ readiness =============================== *)
\* Mutant of _is_service_ready: the shutdown flag is not consulted.
_is_service_ready_readyOnly(ready_seen, shutdown_seen) == ready_seen

\* return _service_ready and not _shutdown_requested
_is_service_ready(ready_seen, shutdown_seen) == ready_seen /\ ~shutdown_seen

\* main(): the clients are initialized; _service_ready = True, and
\* run_service_loop is entered.
MainReady ==
    /\ svcPc = "starting"
    /\ service_ready' = TRUE
    /\ svcPc' = "loop_head"
    /\ UNCHANGED <<now, last_check, cycle_start, sleepLeft, shutdown, monitor,
                   fetched, task, results>>
    /\ UNCHANGED <<sigPc, hcReq, apiPc, api_is_ready, api_shutdown, apiReq,
                   nReq>>
    /\ UNCHANGED <<pipeVars, rdyRest>>

\* main(): a client constructor raises; health_server.stop(); return 1
MainInitFails ==
    /\ svcPc = "starting"
    /\ svcPc' = "stopped"
    /\ UNCHANGED <<now, last_check, cycle_start, sleepLeft, shutdown, monitor,
                   fetched, task, results>>
    /\ UNCHANGED <<pipeVars, auxVars>>

\* main(), finally: _service_ready = False; health_server.stop()
MainFinally ==
    /\ svcPc = "exited"
    /\ service_ready' = FALSE
    /\ svcPc' = "stopped"
    /\ UNCHANGED <<now, last_check, cycle_start, sleepLeft, shutdown, monitor,
                   fetched, task, results>>
    /\ UNCHANGED <<sigPc, hcReq, apiPc, api_is_ready, api_shutdown, apiReq,
                   nReq>>
    /\ UNCHANGED <<pipeVars, rdyRest>>

\* HealthCheckHandler.do_GET, /ready: the request comes in and
\* _is_service_ready loads _service_ready; a false value is the answer
\* (short-circuit and), otherwise _shutdown_requested is loaded next.
HcReadReady ==
    /\ svcPc # "stopped"
    /\ hcReq.st = "idle"
    /\ nReq < MaxRequests
    /\ nReq' = nReq + 1
    /\ hcReq' = IF service_ready
                THEN [st |-> "read_shutdown", after |-> shutdown, status |-> 0]
                ELSE [st |-> "answered", after |-> shutdown,
                      status |-> IF _is_service_ready(FALSE, shutdown)
                                 THEN 200 ELSE 503]
    /\ UNCHANGED <<service_ready, sigPc, apiPc, api_is_ready, api_shutdown,
                   apiReq>>
    /\ UNCHANGED <<pipeVars, svcVars, rdyRest>>

\* _is_service_ready loads _shutdown_requested; 200 if ready, 503 otherwise
HcReadShutdown ==
    /\ hcReq.st = "read_shutdown"
    /\ hcReq' = [hcReq EXCEPT !.st = "answered",
                              !.status = IF _is_service_ready(TRUE, shutdown)
                                         THEN 200 ELSE 503]
    /\ UNCHANGED <<service_ready, sigPc, apiPc, api_is_ready, api_shutdown,
                   apiReq, nReq>>
    /\ UNCHANGED <<pipeVars, svcVars, rdyRest>>

\* The response is sent; the server takes the next request.
HcRespond ==
    /\ hcReq.st = "answered"
    /\ hcReq' = NoRequest
    /\ UNCHANGED <<service_ready, sigPc, apiPc, api_is_ready, api_shutdown,
                   apiReq, nReq>>
    /\ UNCHANGED <<pipeVars, svcVars, rdyRest>>

\* APIServer.start / run_forever: the server listens; _is_ready = True
ApiStart ==
    /\ apiPc = "created"
    /\ api_is_ready' = TRUE
    /\ apiPc' = "serving"
    /\ UNCHANGED <<service_ready, sigPc, hcReq, api_shutdown, apiReq, nReq>>
    /\ UNCHANGED <<pipeVars, svcVars, rdyRest>>

\* APIServer.stop: _is_ready = False
ApiStopClearReady ==
    /\ apiPc = "serving"
    /\ api_is_ready' = FALSE
    /\ apiPc' = "stopping"
    /\ UNCHANGED <<service_ready, sigPc, hcReq, api_shutdown, apiReq, nReq>>
    /\ UNCHANGED <<pipeVars, svcVars, rdyRest>>

\* APIServer.stop: _shutdown_requested = True; server.shutdown()
ApiStopSetFlag ==
    /\ apiPc = "stopping"
    /\ apiReq.st = "idle"
    /\ api_shutdown' = TRUE
    /\ apiPc' = "stopped"
    /\ UNCHANGED <<service_ready, sigPc, hcReq, api_is_ready, apiReq, nReq>>
    /\ UNCHANGED <<pipeVars, svcVars, rdyRest>>

\* APIServer.run_forever: KeyboardInterrupt; finally: _is_ready = False;
\* server.shutdown()
ApiInterrupt ==
    /\ apiPc = "serving"
    /\ apiReq.st = "idle"
    /\ api_is_ready' = FALSE
    /\ apiPc' = "stopped"
    /\ UNCHANGED <<service_ready, sigPc, hcReq, api_shutdown, apiReq, nReq>>
    /\ UNCHANGED <<pipeVars, svcVars, rdyRest>>

\* APIRequestHandler.do_GET, /ready: if _is_ready: 200 else: 503
ApiReady ==
    /\ apiPc \in {"serving", "stopping"}
    /\ apiReq.st = "idle"
    /\ nReq < MaxRequests
    /\ nReq' = nReq + 1
    /\ apiReq' = [st |-> "answered", after |-> api_shutdown,
                  status |-> IF api_is_ready THEN 200 ELSE 503]
    /\ UNCHANGED <<service_ready, sigPc, hcReq, apiPc, api_is_ready,
                   api_shutdown>>
    /\ UNCHANGED <<pipeVars, svcVars, rdyRest>>

ApiRespond ==
    /\ apiReq.st = "answered"
    /\ apiReq' = NoRequest
    /\ UNCHANGED <<service_ready, sigPc, hcReq, apiPc, api_is_ready,
                   api_shutdown, nReq>>
    /\ UNCHANGED <<pipeVars, svcVars, rdyRest>>

\* main() after health_server.start(): the clients are being initialized,
\* no violation is pending.
InitReady ==
    /\ store = [fp \in Fingerprints |-> Absent]
    /\ branches = {}
    /\ prs = [b \in BranchNames |-> 0]
    /\ storeFaulty = FALSE
    /\ reported = {}
    /\ seeded = {}
    /\ InitWorkers({})
    /\ svcPc = "starting"
    /\ InitLoop
    /\ service_ready = FALSE
    /\ sigPc = "none"
    /\ hcReq = NoRequest
    /\ apiPc = "created"
    /\ api_is_ready = FALSE
    /\ api_shutdown = FALSE
    /\ apiReq = NoRequest
    /\ nReq = 0
    /\ InitOther

NextReady ==
    \/ MainReady
    \/ MainInitFails
    \/ MainFinally
    \/ LoopHead
    \/ Fetch
    \/ UpdateLastCheck
    \/ CycleError
    \/ SleepCalc
    \/ SleepCheck
    \/ SliceEnd
    \/ Signal
    \/ SignalClearReady
    \/ HcReadReady
    \/ HcReadShutdown
    \/ HcRespond
    \/ ApiStart
    \/ ApiStopClearReady
    \/ ApiStopSetFlag
    \/ ApiInterrupt
    \/ ApiReady
    \/ ApiRespond

SpecReady == InitReady /\ [][NextReady]_vars

(* =========================== rate limiter ============================= *)
\* Timeouts handed to acquire, in seconds.
Timeouts == {0, 2}

\* Mutant of _refill: the bucket is not capped at its capacity.
_refill_uncapped(tokens, elapsed) == tokens + elapsed * requests_per_minute

\* self.tokens = min(self.capacity, self.tokens + elapsed * self.rate)
_refill(tokens, elapsed) ==
    Min(burst_size * TokenUnit, tokens + elapsed * requests_per_minute)

\* acquire: deadline = time.monotonic() + timeout
AcquireBegin(t) ==
    /\ limPc[t] = "idle"
    /\ nLimCalls < MaxLimCalls
    /\ nLimCalls' = nLimCalls + 1
    /\ \E timeout \in Timeouts :
         /\ limDeadline' = [limDeadline EXCEPT ![t] = limNow + timeout]
         /\ limTimeout' = [limTimeout EXCEPT ![t] = timeout]
    /\ limPc' = [limPc EXCEPT ![t] = "locked"]
    /\ limRet' = [limRet EXCEPT ![t] = "none"]
    /\ UNCHANGED <<limTokens, limLast, limNow, limWait, limAcq>>
    /\ UNCHANGED <<pipeVars, svcVars, limRest>>

\* acquire, with self._lock: _refill(); take a token and return True, or
\* compute wait_time = (1.0 - self.tokens) / self.rate
AcquireLocked(t) ==
    /\ limPc[t] = "locked"
    /\ LET tokens == _refill(limTokens, limNow - limLast) IN
       /\ limLast' = limNow
       /\ IF tokens >= TokenUnit
          THEN /\ limTokens' = tokens - TokenUnit
               /\ limAcq' = [limAcq EXCEPT ![limNow] = @ + 1]
               /\ limRet' = [limRet EXCEPT ![t] = "true"]
               /\ limPc' = [limPc EXCEPT ![t] = "idle"]
               /\ UNCHANGED limWait
          ELSE /\ limTokens' = tokens
               /\ limWait' = [limWait EXCEPT ![t] = TokenUnit - tokens]
               /\ limPc' = [limPc EXCEPT ![t] = "check_deadline"]
               /\ UNCHANGED <<limAcq, limRet>>
    /\ UNCHANGED <<limNow, limDeadline, limTimeout, nLimCalls>>
    /\ UNCHANGED <<pipeVars, svcVars, limRest>>

\* Mutant of AcquireCheckDeadline: the deadline check leaves wait_time out.
AcquireCheckDeadline_ignoresWait(t) ==
    /\ limPc[t] = "check_deadline"
    /\ IF limNow * requests_per_minute
            > limDeadline[t] * requests_per_minute
       THEN /\ limRet' = [limRet EXCEPT ![t] = "false"]
            /\ limPc' = [limPc EXCEPT ![t] = "idle"]
       ELSE /\ limPc' = [limPc EXCEPT ![t] = "sleeping"]
            /\ UNCHANGED limRet
    /\ UNCHANGED <<limTokens, limLast, limNow, limDeadline, limTimeout, limWait,
                   limAcq, nLimCalls>>
    /\ UNCHANGED <<pipeVars, svcVars, limRest>>

\* if time.monotonic() + wait_time > deadline: return False; else sleep
AcquireCheckDeadline(t) ==
    /\ limPc[t] = "check_deadline"
    /\ IF limNow * requests_per_minute + limWait[t]
            > limDeadline[t] * requests_per_minute
       THEN /\ limRet' = [limRet EXCEPT ![t] = "false"]
            /\ limPc' = [limPc EXCEPT ![t] = "idle"]
       ELSE /\ limPc' = [limPc EXCEPT ![t] = "sleeping"]
            /\ UNCHANGED limRet
    /\ UNCHANGED <<limTokens, limLast, limNow, limDeadline, limTimeout, limWait,
                   limAcq, nLimCalls>>
    /\ UNCHANGED <<pipeVars, svcVars, limRest>>

\* time.sleep(min(wait_time, 0.1)) returns; the loop goes round
AcquireWake(t) ==
    /\ limPc[t] = "sleeping"
    /\ limPc' = [limPc EXCEPT ![t] = "locked"]
    /\ UNCHANGED <<limTokens, limLast, limNow, limDeadline, limTimeout, limWait,
                   limRet, limAcq, nLimCalls>>
    /\ UNCHANGED <<pipeVars, svcVars, limRest>>

\* try_acquire, with self._lock: _refill(); take a token or return False
TryAcquire(t) ==
    /\ limPc[t] = "idle"
    /\ nLimCalls < MaxLimCalls
    /\ nLimCalls' = nLimCalls + 1
    /\ LET tokens == _refill(limTokens, limNow - limLast) IN
       /\ limLast' = limNow
       /\ IF tokens >= TokenUnit
          THEN /\ limTokens' = tokens - TokenUnit
               /\ limAcq' = [limAcq EXCEPT ![limNow] = @ + 1]
               /\ limRet' = [limRet EXCEPT ![t] = "true"]
          ELSE /\ limTokens' = tokens
               /\ limRet' = [limRet EXCEPT ![t] = "false"]
               /\ UNCHANGED limAcq
    /\ UNCHANGED <<limNow, limPc, limDeadline, limTimeout, limWait>>
    /\ UNCHANGED <<pipeVars, svcVars, limRest>>

\* A second of monotonic time passes.
LimTick ==
    /\ limNow < LimHorizon
    /\ limNow' = limNow + 1
    /\ UNCHANGED <<limTokens, limLast, limPc, limDeadline, limTimeout, limWait,
                   limRet, limAcq, nLimCalls>>
    /\ UNCHANGED <<pipeVars, svcVars, limRest>>

NextLimiter ==
    \/ \E t \in LimThreadIds : AcquireBegin(t)
    \/ \E t \in LimThreadIds : AcquireLocked(t)
    \/ \E t \in LimThreadIds : AcquireCheckDeadline(t)
    \/ \E t \in LimThreadIds : AcquireWake(t)
    \/ \E t \in LimThreadIds : TryAcquire(t)
    \/ LimTick

SpecLimiter == Init /\ [][NextLimiter]_vars

(* ============================ VantaClient ============================= *)
\* What the monitor answers to GET /v1/tests.
VantaStatuses == {200, 401, 429, 500}

\* VantaClient.__init__: a pre-issued api_token, or client_id and
\* client_secret with the OAuth exchange.
VcConstruct ==
    /\ vcPc = "new"
    /\ vcOAuth' \in BOOLEAN
    /\ vcPc' = "idle"
    /\ UNCHANGED <<vcCursor, vcReauths, vcOut, nVcFetch>>
    /\ UNCHANGED <<pipeVars, svcVars, vcRest>>

\* get_failing_tests: failures = [], page_cursor = None
VcGetFailingTests ==
    /\ vcPc = "idle"
    /\ nVcFetch < MaxFetches
    /\ nVcFetch' = nVcFetch + 1
    /\ vcCursor' = 0
    /\ vcReauths' = 0
    /\ vcOut' = NoOutcome
    /\ vcPc' = "request"
    /\ UNCHANGED vcOAuth
    /\ UNCHANGED <<pipeVars, svcVars, vcRest>>

\* One round of the while True loop: _acquire_rate_limit(), the GET with
\* the current page_cursor, and the handling of its status.
VcRequest ==
    /\ vcPc = "request"
    /\ \/ /\ vcOut' = VantaApiError(
                "Rate limit acquisition timeout - too many requests", 0, TRUE)
          /\ vcPc' = "idle"
          /\ UNCHANGED <<vcCursor, vcReauths>>
       \/ \E status \in VantaStatuses :
            CASE status = 200 ->
                   \E hasNextPage \in BOOLEAN :
                     /\ hasNextPage => vcCursor < MaxPages
                     /\ IF hasNextPage
                        THEN /\ vcCursor' = vcCursor + 1
                             /\ vcReauths' = 0
                             /\ UNCHANGED <<vcPc, vcOut>>
                        ELSE /\ vcOut' = Returned
                             /\ vcPc' = "idle"
                             /\ UNCHANGED <<vcCursor, vcReauths>>
              [] status = 401 /\ vcOAuth ->
                   /\ vcPc' = "reauth"
                   /\ UNCHANGED <<vcCursor, vcReauths, vcOut>>
              [] status = 429 ->
                   /\ vcOut' = VantaApiError("Vanta API rate limit exceeded",
                                             429, TRUE)
                   /\ vcPc' = "idle"
                   /\ UNCHANGED <<vcCursor, vcReauths>>
              [] OTHER ->
                   /\ vcOut' = VantaApiError("Vanta API request failed",
                                             status, status >= 500)
                   /\ vcPc' = "idle"
                   /\ UNCHANGED <<vcCursor, vcReauths>>
    /\ UNCHANGED <<vcOAuth, nVcFetch>>
    /\ UNCHANGED <<pipeVars, svcVars, vcRest>>

\* self._authenticate_oauth(); continue: the same page is asked for again,
\* or the exchange raises VantaApiError.
VcReauth ==
    /\ vcPc = "reauth"
    /\ \/ /\ vcReauths' = Min(vcReauths + 1, MaxReauths)
          /\ vcPc' = "request"
          /\ UNCHANGED vcOut
       \/ /\ vcOut' = VantaApiError("Vanta OAuth authentication failed",
                                    401, FALSE)
          /\ vcPc' = "idle"
          /\ UNCHANGED vcReauths
    /\ UNCHANGED <<vcOAuth, vcCursor, nVcFetch>>
    /\ UNCHANGED <<pipeVars, svcVars, vcRest>>

NextVanta ==
    \/ VcConstruct
    \/ VcGetFailingTests
    \/ VcRequest
    \/ VcReauth

SpecVanta == Init /\ [][NextVanta]_vars

(* ===================== a lookup of the mapping ======================== *)
\* settings.get_repo_for_resource(resource_arn) is called.
CfgLookup ==
    /\ cfgResult = "unset"
    /\ cfgResult' = get_repo_for_resource(cfgMapping, cfgArn)
    /\ UNCHANGED <<cfgMapping, cfgArn>>
    /\ UNCHANGED <<pipeVars, svcVars, cfgRest>>

\* Any configured mapping and any resource ARN.
InitConfig ==
    /\ store = [fp \in Fingerprints |-> Absent]
    /\ branches = {}
    /\ prs = [b \in BranchNames |-> 0]
    /\ storeFaulty = FALSE
    /\ reported = {}
    /\ seeded = {}
    /\ InitWorkers({})
    /\ svcPc = "loop_head"
    /\ InitLoop
    /\ InitReadiness
    /\ InitComponents
    /\ InitHashIdle
    /\ cfgMapping \in Mappings
    /\ cfgArn \in TextsUpTo(MaxLen)
    /\ cfgResult = "unset"
    /\ InitGhIdle

NextConfig == CfgLookup

SpecConfig == InitConfig /\ [][NextConfig]_vars

(* ============= errors of the GitHub calls of the PR creator =========== *)
\* The PyGithub calls create_remediation_pr makes.
GhOperations == {"get_repo", "get_branch", "get_git_ref", "create_git_ref",
                 "get_contents", "update_file", "create_pull"}

\* Statuses a call may fail with (0: the exception carries no status).
\* PyGithub raises UnknownObjectException for 404.
GhStatuses == {0, 403, 404, 422, 429, 500, 502, 503}

\* What create_remediation_pr raises when the call fails with the status:
\* get_repo has its own clause for UnknownObjectException; get_branch is
\* guarded by `except UnknownObjectException: pass` only, so any other
\* GithubException leaves the method as it is; the calls inside the
\* try block go through _handle_github_exception.
create_remediation_pr_raises(operation, status) ==
    CASE operation = "get_repo" ->
           IF status = 404
           THEN GitHubError("Repository not found", FALSE)
           ELSE _handle_github_exception(status, "get_repo")
      [] operation = "get_branch" ->
           IF status = 404
           THEN NoError
           ELSE OtherException("GithubException")
      [] OTHER -> _handle_github_exception(status, "create_pr")

\* The call fails inside create_remediation_pr.
GhCallFails ==
    /\ ghRaised = NotYetRaised
    /\ ghRaised' = create_remediation_pr_raises(ghOp, ghStatus)
    /\ ghRetry' = IF ghRaised'.kind = "none" THEN "no error"
                  ELSE IF ShouldRetry(ghRaised', ghAttempt) THEN "retry"
                  ELSE "raise"
    /\ UNCHANGED <<ghOp, ghStatus, ghAttempt>>
    /\ UNCHANGED <<pipeVars, svcVars, ghRest>>

\* Any call of the PR creator failing with any status.
InitGitHubErrors ==
    /\ store = [fp \in Fingerprints |-> Absent]
    /\ branches = {}
    /\ prs = [b \in BranchNames |-> 0]
    /\ storeFaulty = FALSE
    /\ reported = {}
    /\ seeded = {}
    /\ InitWorkers({})
    /\ svcPc = "loop_head"
    /\ InitLoop
    /\ InitReadiness
    /\ InitComponents
    /\ InitConfigIdle
    /\ InitHashIdle
    /\ ghOp \in GhOperations
    /\ ghStatus \in GhStatuses
    /\ ghAttempt \in 0..(MAX_RETRIES - 1)
    /\ ghRaised = NotYetRaised
    /\ ghRetry = "unset"

NextGitHubErrors == GhCallFails

SpecGitHubErrors == InitGitHubErrors /\ [][NextGitHubErrors]_vars

(* ------------------------- cloning the repository --------------------- *)
\* A text is a sequence of fragments; the credential is one fragment.
github_token == "ghp_TOKEN"

ContainsToken(text) == \E i \in 1..Len(text) : text[i] = github_token

\* SecureGitClient._sanitize_output: str.replace(token, "[REDACTED]"); the
\* x-access-token pattern that follows finds the token already replaced.
_sanitize_output(output) ==
    [i \in 1..Len(output) |->
        IF output[i] = github_token THEN "[REDACTED]" ELSE output[i]]

\* _clone_repository: the clone URL carries the token.
TokenCloneUrl(repo_full_name) ==
    <<"https://x-access-token:", github_token, "@github.com/",
      repo_full_name, ".git">>

\* SecureGitClient.clone_repository: the clone URL carries no credential.
PlainCloneUrl(repo_full_name) ==
    <<"https://github.com/", repo_full_name, ".git">>

\* _create_credential_script: the script echoes the token to git.
CredentialScript ==
    <<"echo username=x-access-token", "echo password=", github_token>>

CloneRepos == {"org/a", "org/b"}

\* What git may write to stderr on a failed clone: a plain message, a
\* message quoting the URL it was given, or one quoting the credential it
\* was handed.
GitStderrs(clone_url) ==
    { <<"fatal: repository not found">>,
      <<"fatal: unable to access ">> \o clone_url,
      <<"remote: invalid credentials ", github_token>> }

\* log_with_context(logger, level, message, **context) as one line.
LogLine(message, context) == <<message>> \o context

\* _process_failure_once calls _clone_repository(repo, path, token): git is
\* spawned with the URL in its arguments.
CloneStart ==
    /\ clPc = "idle"
    /\ nClones < MaxClones
    /\ \E r \in CloneRepos :
        /\ clRepo' = r
        /\ clArgv' = << <<"git">>, <<"clone">>, <<"--depth">>, <<"1">>,
                        TokenCloneUrl(r), <<"target_path">> >>
        /\ clLog' = clLog \cup {LogLine("Cloning repository", <<r>>)}
    /\ clBy' = "_clone_repository"
    /\ clPc' = "running"
    /\ clRaised' = NoCloneError
    /\ nClones' = nClones + 1
    /\ UNCHANGED clScript
    /\ UNCHANGED <<pipeVars, svcVars, clRest>>

\* subprocess.run(..., check = True) returns or raises in _clone_repository.
CloneEnd ==
    /\ clPc = "running"
    /\ clBy = "_clone_repository"
    /\ \/ /\ clLog' = clLog \cup
                 {LogLine("Successfully cloned repository", <<clRepo>>)}
          /\ clRaised' = NoCloneRaised
       \/ \E stderr \in GitStderrs(clArgv[5]) :
            /\ clLog' = clLog \cup
                  {LogLine("Failed to clone repository",
                           <<clRepo>> \o stderr)}
            /\ clRaised' = GitHubError(
                  <<"Failed to clone repository: ">> \o stderr, TRUE)
       \/ /\ clLog' = clLog \cup
                 {LogLine("Repository clone timed out", <<clRepo>>)}
          /\ clRaised' = GitHubError(<<"Repository clone timed out">>, TRUE)
       \/ /\ clLog' = clLog \cup {LogLine("Git command not found", <<>>)}
          /\ clRaised' = GitHubError(
                 <<"Git command not found. Please install git.">>, FALSE)
    /\ clPc' = "done"
    /\ UNCHANGED <<clBy, clRepo, clArgv, clScript, nClones>>
    /\ UNCHANGED <<pipeVars, svcVars, clRest>>

\* SecureGitClient.clone_repository up to subprocess.run: the credential
\* goes into the GIT_ASKPASS script, the arguments carry the plain URL.
SecureCloneStart ==
    /\ clPc = "idle"
    /\ nClones < MaxClones
    /\ \E r \in CloneRepos :
        /\ clRepo' = r
        /\ clArgv' = << <<"git">>, <<"clone">>, <<"--depth">>, <<"1">>,
                        <<"--branch">>, <<"main">>, <<"--single-branch">>,
                        PlainCloneUrl(r), <<"target_path">> >>
        /\ clLog' = clLog \cup
              {LogLine("Cloning repository", <<r, "main", "1">>)}
    /\ clScript' = CredentialScript
    /\ clBy' = "SecureGitClient.clone_repository"
    /\ clPc' = "running"
    /\ clRaised' = NoCloneError
    /\ nClones' = nClones + 1
    /\ UNCHANGED <<pipeVars, svcVars, clRest>>

\* SecureGitClient.clone_repository from the return of subprocess.run; the
\* finally clause deletes the credential script.
SecureCloneEnd ==
    /\ clPc = "running"
    /\ clBy = "SecureGitClient.clone_repository"
    /\ \/ /\ clLog' = clLog \cup
                 {LogLine("Successfully cloned repository",
                          <<clRepo, "target_path">>)}
          /\ clRaised' = NoCloneRaised
       \/ \E stderr \in GitStderrs(clArgv[8]) :
            LET error_msg == _sanitize_output(stderr) IN
            /\ clLog' = clLog \cup
                  {LogLine("Git clone failed", <<clRepo>> \o error_msg)}
            /\ clRaised' = GitHubError(
                  <<"Git clone failed: ">> \o error_msg, TRUE)
       \/ /\ clLog' = clLog \cup
                 {LogLine("Git clone timed out", <<clRepo>>)}
          /\ clRaised' = GitHubError(
                 <<"Git clone timed out for ", clRepo>>, TRUE)
       \/ /\ clLog' = clLog \cup {LogLine("Git command not found", <<>>)}
          /\ clRaised' = GitHubError(
                 <<"Git command not found. Please install git.">>, FALSE)
    /\ clScript' = <<>>
    /\ clPc' = "done"
    /\ UNCHANGED <<clBy, clRepo, clArgv, nClones>>
    /\ UNCHANGED <<pipeVars, svcVars, clRest>>

\* The caller goes on; a later call clones again.
CloneReturn ==
    /\ clPc = "done"
    /\ clPc' = "idle"
    /\ UNCHANGED <<clBy, clRepo, clArgv, clScript, clLog, clRaised,
                   nClones>>
    /\ UNCHANGED <<pipeVars, svcVars, clRest>>

NextClone ==
    \/ CloneStart
    \/ CloneEnd
    \/ SecureCloneStart
    \/ SecureCloneEnd
    \/ CloneReturn

SpecClone == Init /\ [][NextClone]_vars

(* --------------------- every write to the store ----------------------- *)
\* The pipeline and callers of check_and_claim share one store that earlier
\* runs have written to.
NextStoreWrites ==
    \/ Next
    \/ NextClaim

SpecStoreWrites == InitOneWorker /\ [][NextStoreWrites]_vars

(* ------------------- API server: request statistics ------------------ *)
\* MockProcessingStats.record_request(latency_ms, success), under its lock
record_request(st, latency_ms, success) ==
    [total_requests |-> st.total_requests + 1,
     successful_requests |->
         st.successful_requests + (IF success THEN 1 ELSE 0),
     failed_requests |-> st.failed_requests + (IF success THEN 0 ELSE 1),
     total_latency_ms |-> st.total_latency_ms + latency_ms,
     latencies |-> Append(st.latencies, latency_ms)]

\* (time.perf_counter() - start_time) * 1000 as measured
Latencies == 1..MaxLatency

\* process_failure / _process_real on one failure: returns a result with
\* success = True, or raises.
ProcessOutcomes == {"ok", "raises"}

\* Bodies of a POST: not valid JSON, bytes that are not UTF-8, or a JSON
\* value.
WebhookBodies == {"invalid_json", "undecodable", "json"}

\* A JSON body of POST /batch is an array of failures (given by how the
\* processing of each one ends) or something else.
BatchArrays ==
    UNION {[1..n -> ProcessOutcomes] : n \in 0..MaxBatch}

\* _handle_webhook: one exit records the request, except that a failure to
\* send the 200 response lands in `except Exception`, which records again.
HandleWebhook ==
    /\ nPosts < MaxPosts
    /\ nPosts' = nPosts + 1
    /\ \E body \in WebhookBodies, outcome \in ProcessOutcomes,
          sent \in BOOLEAN, latency_ms \in Latencies, later_ms \in Latencies :
        /\ later_ms >= latency_ms
        /\ IF body = "invalid_json"
           THEN /\ _stats' = record_request(_stats, latency_ms, FALSE)
                /\ lastPost' = [path |-> "/webhook", body |-> body,
                                status |-> 400]
           ELSE IF body = "undecodable" \/ outcome = "raises"
           THEN /\ _stats' = record_request(_stats, latency_ms, FALSE)
                /\ lastPost' = [path |-> "/webhook", body |-> body,
                                status |-> 500]
           ELSE IF sent
           THEN /\ _stats' = record_request(_stats, latency_ms, TRUE)
                /\ lastPost' = [path |-> "/webhook", body |-> body,
                                status |-> 200]
           ELSE /\ _stats' = record_request(
                                 record_request(_stats, latency_ms, TRUE),
                                 later_ms, FALSE)
                /\ lastPost' = [path |-> "/webhook", body |-> body,
                                status |-> 500]
    /\ UNCHANGED <<pipeVars, svcVars, stRest>>

\* _handle_batch with a body that is not an array of failures: the
\* response is sent and nothing is recorded.
HandleBatchRejected ==
    /\ nPosts < MaxPosts
    /\ nPosts' = nPosts + 1
    /\ \E body \in {"invalid_json", "undecodable", "not_array"} :
        lastPost' = [path |-> "/batch", body |-> body,
                     status |-> IF body = "undecodable" THEN 500 ELSE 400]
    /\ UNCHANGED _stats
    /\ UNCHANGED <<pipeVars, svcVars, stRest>>

\* _handle_batch with an array: every failure is processed, an exception
\* becomes a result with success = False, then one record_request.
HandleBatch ==
    /\ nPosts < MaxPosts
    /\ nPosts' = nPosts + 1
    /\ \E failures \in BatchArrays, sent \in BOOLEAN,
          latency_ms \in Latencies :
        LET successful ==
                Cardinality({i \in DOMAIN failures : failures[i] = "ok"})
        IN  /\ _stats' = record_request(_stats, latency_ms,
                                        successful = Len(failures))
            /\ lastPost' = [path |-> "/batch", body |-> "array",
                            status |-> IF sent THEN 200 ELSE 500]
    /\ UNCHANGED <<pipeVars, svcVars, stRest>>

NextStats ==
    \/ HandleWebhook
    \/ HandleBatchRejected
    \/ HandleBatch

SpecStats == Init /\ [][NextStats]_vars

(* ------------------- VantaClient.generate_failure_hash ---------------- *)
\* A Failure with the fields besides test_id and resource_arn that may
\* differ between two reports of the same violation.
Violations ==
    [test_id : {"t1", "t2"}, resource_arn : Arns, failed_at : 1..MaxStamp,
     severity : {"high", "low"}, resource_id : {"r1", "None"}]

\* generate_failure_hash is applied to both violations.
HashBoth ==
    /\ fhHash = <<>>
    /\ fhHash' = <<generate_failure_hash(fhV1), generate_failure_hash(fhV2)>>
    /\ UNCHANGED <<fhV1, fhV2>>
    /\ UNCHANGED <<pipeVars, svcVars, fhRest>>

\* Any two violations.
InitHash ==
    /\ store = [fp \in Fingerprints |-> Absent]
    /\ branches = {}
    /\ prs = [b \in BranchNames |-> 0]
    /\ storeFaulty = FALSE
    /\ reported = {}
    /\ seeded = {}
    /\ InitWorkers({})
    /\ svcPc = "loop_head"
    /\ InitLoop
    /\ InitReadiness
    /\ InitComponents
    /\ InitConfigIdle
    /\ InitGhIdle
    /\ fhV1 \in Violations
    /\ fhV2 \in Violations
    /\ fhHash = <<>>

NextHash == HashBoth

SpecHash == InitHash /\ [][NextHash]_vars

(* ----------------- MetricsCollector._record_timing -------------------- *)
\* Mutant of _record_timing: the first 1000 samples are kept.
_record_timing_keepsFirst(samples, duration) ==
    LET appended == Append(samples, duration) IN
    IF Len(appended) > MaxTimings
    THEN SubSeq(appended, 1, MaxTimings)
    ELSE appended

\* self._timings[key].append(duration); if len(...) > 1000:
\* self._timings[key] = self._timings[key][-1000:]
_record_timing(samples, duration) ==
    LET appended == Append(samples, duration) IN
    IF Len(appended) > MaxTimings
    THEN SubSeq(appended, Len(appended) - MaxTimings + 1, Len(appended))
    ELSE appended

\* Timer.stop() records a timing under key, with the lock held; the sample
\* is identified by its position among the recordings of its key.
RecordTiming(key) ==
    /\ mtCount[key] <
           (IF key = "bedrock_inference" THEN MaxRecords ELSE MaxOtherRecords)
    /\ mtCount' = [mtCount EXCEPT ![key] = @ + 1]
    /\ _timings' = [_timings EXCEPT
                       ![key] = _record_timing(@, mtCount[key] + 1)]
    /\ UNCHANGED <<pipeVars, svcVars, mtRest>>

NextMetrics == \E key \in TimerKeys : RecordTiming(key)

SpecMetrics == Init /\ [][NextMetrics]_vars

(* ------------- experiments: cascade profile and generate_stream ------- *)
RECURSIVE Pow(_, _)
Pow(b, n) == IF n = 0 THEN 1 ELSE b * Pow(b, n - 1)

\* Mutant of get_failures_for_interval: the product is rounded up.
get_failures_for_interval_roundsUp(elapsed_seconds) ==
    LET intervals_elapsed == elapsed_seconds \div interval_seconds IN
    (failures_per_interval * Pow(GrowthNum, intervals_elapsed)
        + Pow(GrowthDen, intervals_elapsed) - 1)
        \div Pow(GrowthDen, intervals_elapsed)

\* ProfileConfig.get_failures_for_interval, CASCADE branch:
\* int(failures_per_interval * cascade_growth_rate ** intervals_elapsed)
get_failures_for_interval(elapsed_seconds) ==
    LET intervals_elapsed == elapsed_seconds \div interval_seconds IN
    (failures_per_interval * Pow(GrowthNum, intervals_elapsed))
        \div Pow(GrowthDen, intervals_elapsed)

\* while elapsed < config.duration_seconds:
\*     num_failures = config.get_failures_for_interval(int(elapsed))
GenLoopTest ==
    /\ genPc = "loop_test"
    /\ IF genElapsed < duration_seconds
       THEN /\ genLeft' = get_failures_for_interval(genElapsed)
            /\ genInterval' = genElapsed \div interval_seconds
            /\ genPc' = "emit"
       ELSE /\ genPc' = "done"
            /\ UNCHANGED <<genLeft, genInterval>>
    /\ UNCHANGED <<genElapsed, genSleeps, genBusy, genEmitted,
                   total_generated>>
    /\ UNCHANGED <<pipeVars, svcVars, gnRest>>

\* yield self.generate_failure(...): the experiment counts the failure
\* (result.record_generated()) and processes it before the generator goes
\* on, which takes the consumer some time.
GenYield ==
    /\ genPc = "emit"
    /\ genLeft > 0
    /\ genLeft' = genLeft - 1
    /\ total_generated' = total_generated + 1
    /\ genEmitted' = [genEmitted EXCEPT ![genInterval] = @ + 1]
    /\ \E delay \in 0..MaxDelay : genBusy' = genBusy + delay
    /\ UNCHANGED <<genPc, genElapsed, genSleeps, genInterval>>
    /\ UNCHANGED <<pipeVars, svcVars, gnRest>>

\* await asyncio.sleep(config.interval_seconds)
\* elapsed = time.time() - start_time
GenSleep ==
    /\ genPc = "emit"
    /\ genLeft = 0
    /\ genSleeps' = genSleeps + 1
    /\ genElapsed' = genSleeps' * interval_seconds + genBusy
    /\ genPc' = "loop_test"
    /\ UNCHANGED <<genBusy, genLeft, genInterval, genEmitted, total_generated>>
    /\ UNCHANGED <<pipeVars, svcVars, gnRest>>

NextGenerator ==
    \/ GenLoopTest
    \/ GenYield
    \/ GenSleep

SpecGenerator == Init /\ [][NextGenerator]_vars

(* ============================ properties ============================== *)
FP(w) == generate_failure_hash(cur[w])

\* The clone / generate / PR stages of the pipeline.
InPipeline(w) == pc[w] \in {"attempt", "create_git_ref", "create_pull"}

Started(w) == pc[w] \notin {"idle", "off"}

\* The attempt-with-retry of w's call ended in an error.
AttemptFailed(w) ==
    /\ pc[w] \in {"mark_failed", "mark_failed_set", "done"}
    /\ attempts[w] >= 1
    /\ retUrl[w] = NoUrl

StoreCallsOf(w, op) ==
    {i \in 1..Len(storeCalls[w]) : storeCalls[w][i].op = op}

\* C1: for any fingerprint F, at most one process_failure call is past the
\* deduplication gate, in the clone/generate/PR stages, while F's record is
\* in-progress (no TTL expiry in between).
C1_AtMostOneInPipeline ==
    \A fp \in Fingerprints :
        (nExpire = 0 /\ store[fp].status = "in_progress")
        => Cardinality({w \in Workers : InPipeline(w) /\ FP(w) = fp}) <= 1

\* C2: under any interleaving of workers on one fingerprint (no external
\* fault, no TTL expiry), at most one pull request is opened from its
\* branch, and every worker that finished without opening it ended with a
\* skipped result or with the duplicate-branch sentinel of the PR creator.
C2_OnePrOthersSkipOrSentinel ==
    (nFaults = 0 /\ nExpire = 0) =>
        /\ \A b \in BranchNames : prs[b] <= 1
        /\ \A w \in Workers :
             (pc[w] = "done" /\ "pr" \notin effects[w])
             => \/ result[w].skipped
                \/ result[w].error = DuplicateBranchMsg

Claimers(fp) == {w \in Workers : claimed[w].called /\ claimed[w].fp = fp}

\* C3: of the check_and_claim calls made on a fingerprint that had no record
\* (and whose record did not expire meanwhile), exactly one returned true and
\* every other one returned false.
C3_ExactlyOneClaim ==
    \A fp \in Fingerprints :
        (fp \notin seeded /\ nExpire = 0 /\ Claimers(fp) # {})
        => Cardinality({w \in Claimers(fp) : claimed[w].ok}) = 1

C3_Witness ==
    \E fp \in Fingerprints :
        /\ fp \notin seeded
        /\ nExpire = 0
        /\ Claimers(fp) = Workers
        /\ \E w \in Workers : ~claimed[w].ok

\* C4: a call whose gate read finds the record in-progress or completed
\* returns success=true, skipped=true and does nothing else: no attempt, no
\* clone, no inference, no branch, no pull request, no store write.
C4_SkipDoesNothing ==
    \A w \in Workers :
        (Started(w) /\ gateSeen[w] \in {"in_progress", "completed"})
        => /\ pc[w] = "done"
           /\ result[w] = ProcessingResult(TRUE, NoUrl, "", TRUE)
           /\ attempts[w] = 0
           /\ effects[w] = {}
           /\ storeCalls[w] = <<>>

C4_Witness ==
    \E w \in Workers :
        /\ pc[w] = "done" /\ gateSeen[w] = "in_progress" /\ result[w].skipped
        /\ store[FP(w)].status = "in_progress"
        /\ _generate_branch_name(cur[w]) \notin branches

\* C5: a record that is completed stays completed until it TTL-expires: no
\* step moves it to in-progress or to failed.
C5_CompletedSticky ==
    [][\A fp \in Fingerprints :
          store[fp].status = "completed"
          => store'[fp].status \in {"completed", "absent"}]_vars

\* C6: a call whose gate read finds the record failed is not skipped: it
\* goes on to mark_in_progress and runs at least one attempt.
C6_FailedIsReclaimable ==
    \A w \in Workers :
        (Started(w) /\ gateSeen[w] = "failed")
        => /\ ~result[w].skipped
           /\ (pc[w] = "done") => (attempts[w] >= 1 /\ effects[w] # {})
           /\ (pc[w] # "done") =>
                  (pc[w] = "mark_in_progress" \/ InPipeline(w)
                     \/ pc[w] \in {"mark_processed", "mark_processed_set",
                                    "mark_failed", "mark_failed_set"})

C6_Witness ==
    \E w \in Workers :
        /\ pc[w] = "done" /\ gateSeen[w] = "failed"
        /\ nExpire = 0 /\ seeded = {}
        /\ attempts[w] >= 1 /\ result[w].state = "returned"

\* C7: when the attempt-with-retry ended in an error, the finished call has
\* called mark_failed exactly once, with the error text, and returns
\* success=false with that error.
C7_FailureIsRecorded ==
    \A w \in Workers :
        (AttemptFailed(w) /\ pc[w] = "done")
        => /\ lastErr[w] # NoError
           /\ Cardinality(StoreCallsOf(w, "mark_failed")) = 1
           /\ \A i \in StoreCallsOf(w, "mark_failed") :
                  storeCalls[w][i].msg = lastErr[w].msg
           /\ StoreCallsOf(w, "mark_processed") = {}
           /\ result[w].state = "returned"
           /\ ~result[w].success /\ ~result[w].skipped
           /\ result[w].error = lastErr[w].msg
           /\ result[w].pr_url = NoUrl

C7_Witness ==
    \E w \in Workers :
        /\ AttemptFailed(w) /\ pc[w] = "done"
        /\ store[FP(w)].status = "failed"
        /\ store[FP(w)].last_error = lastErr[w].msg

\* C8: when an attempt returned a non-empty PR URL, the call calls
\* mark_processed once with that URL, the write makes the record completed
\* with that URL, and the call returns success=true, skipped=false, pr_url.
C8_SuccessResult ==
    \A w \in Workers :
        (retUrl[w] # NoUrl /\ pc[w] = "done")
        => /\ Cardinality(StoreCallsOf(w, "mark_processed")) = 1
           /\ \A i \in StoreCallsOf(w, "mark_processed") :
                  storeCalls[w][i].url = retUrl[w]
           /\ StoreCallsOf(w, "mark_failed") = {}
           /\ result[w] = ProcessingResult(TRUE, retUrl[w], "", FALSE)

C8_WriteCompletes ==
    \A w \in Workers :
        (pc[w] = "mark_processed_set" /\ pc'[w] # "mark_processed_set")
        => /\ pc'[w] = "done"
           /\ store'[FP(w)].status = "completed"
           /\ store'[FP(w)].pr_url = retUrl[w]

C8_SuccessIsRecorded == []C8_SuccessResult /\ [][C8_WriteCompletes]_vars

C8_Witness ==
    \E w \in Workers :
        /\ retUrl[w] # NoUrl /\ pc[w] = "done"
        /\ store[FP(w)].status = "completed"
        /\ store[FP(w)].pr_url = retUrl[w]

Retryable(e) == RetryClass(e) /\ e.retryable

\* C9: at most MAX_RETRIES = 3 attempts per call; a further attempt is
\* started only after a retryable error; when the propagated error is
\* retryable, exactly 3 attempts were made and 2 sleeps taken (none after
\* the third error).
C9_AtMostThreeAttempts ==
    \A w \in Workers :
        /\ attempts[w] <= MAX_RETRIES
        /\ Len(sleeps[w]) <= MAX_RETRIES - 1
        /\ (pc[w] = "attempt" /\ attempts[w] >= 1)
           => Retryable(lastErr[w]) /\ Len(sleeps[w]) = attempts[w]
        /\ (AttemptFailed(w) /\ Retryable(lastErr[w]))
           => attempts[w] = MAX_RETRIES /\ Len(sleeps[w]) = MAX_RETRIES - 1

C9_Witness ==
    \E w \in Workers :
        /\ AttemptFailed(w) /\ pc[w] = "done" /\ Retryable(lastErr[w])
        /\ attempts[w] = 3 /\ Len(sleeps[w]) = 2

\* C10: once an attempt raised an error whose retryable flag is false, or an
\* exception outside the error taxonomy, the error propagates: no attempt
\* and no sleep follows it (an error of the first attempt: exactly one
\* attempt, no sleep).
C10_PermanentNotRetried ==
    \A w \in Workers :
        (Started(w) /\ retUrl[w] = NoUrl /\ lastErr[w] # NoError
            /\ (~lastErr[w].retryable \/ lastErr[w].kind = "Exception"))
        => /\ AttemptFailed(w)
           /\ Len(sleeps[w]) = attempts[w] - 1
           /\ (pc[w] = "done") => (result[w].error = lastErr[w].msg)

C10_Witness ==
    \E w \in Workers :
        /\ AttemptFailed(w) /\ pc[w] = "done" /\ attempts[w] = 1
        /\ RetryClass(lastErr[w]) /\ ~lastErr[w].retryable
        /\ sleeps[w] = <<>>
        /\ result[w].error = lastErr[w].msg

\* C11: when attempts 1 and 2 failed with a retryable error and attempt 3
\* returned a PR URL, the call slept 4 seconds before attempt 2 and 8 seconds
\* before attempt 3.
C11_SleepsFourThenEight ==
    \A w \in Workers :
        (attempts[w] = 3 /\ retUrl[w] # NoUrl) => sleeps[w] = <<4, 8>>

\* C12: content that terraform validate rejects never reaches the PR
\* creator: the attempt that generated it is neither retried nor inside
\* create_remediation_pr, and no PR URL comes out of it.
C12_InvalidFixNeverReachesPr ==
    \A w \in Workers :
        fix[w] = "invalid"
        => /\ pc[w] \notin {"attempt", "create_git_ref", "create_pull"}
           /\ retUrl[w] = NoUrl

\* C13: a create_git_ref call that finds the branch already there (created
\* by another worker after this worker's get_branch check) makes
\* create_remediation_pr return the empty-URL sentinel, which the attempt
\* reports as the duplicate-branch error; no commit and no pull request.
C13_BranchExistsGivesSentinel ==
    [][\A w \in Workers :
          (/\ pc[w] = "create_git_ref"
           /\ _generate_branch_name(cur[w]) \in branches
           /\ pc'[w] # pc[w]
           /\ nFaults' = nFaults)
          => /\ lastErr'[w].msg = DuplicateBranchMsg
             /\ prs' = prs]_vars

\* C14: a create_remediation_pr call that created its branch and then failed
\* (file read, commit or pull-request creation) leaves no branch behind.
C14_FailedCallLeavesNoBranch ==
    \A w \in Workers :
        (/\ "branch" \in effects[w]
         /\ "pr" \notin effects[w]
         /\ pc[w] \in {"attempt", "mark_failed", "mark_failed_set", "done"})
        => _generate_branch_name(cur[w]) \notin branches

\* C15: an attempt in which the PR creator returned the empty-URL sentinel
\* ends the retry loop: its error is not retryable, no sleep and no attempt
\* follows it, and the call goes on to report the failure.
C15_SentinelIsPermanent ==
    \A w \in Workers :
        (Started(w) /\ lastErr[w].msg = DuplicateBranchMsg)
        => /\ ~lastErr[w].retryable
           /\ AttemptFailed(w)
           /\ Len(sleeps[w]) = attempts[w] - 1
           /\ "pr" \notin effects[w]

C15_Witness ==
    \E w \in Workers :
        /\ pc[w] = "done" /\ lastErr[w].msg = DuplicateBranchMsg
        /\ attempts[w] = 1 /\ sleeps[w] = <<>>
        /\ result[w].error = DuplicateBranchMsg /\ ~result[w].success

\* C16: a call whose mark_in_progress raised still runs its attempt and
\* returns a result; a call whose mark_failed raised still returns the
\* failure result (success=false with the error of the attempt).
C16_StoreWriteFailureDoesNotBlock ==
    \A w \in Workers :
        /\ ("mark_in_progress" \in storeErrors[w])
           => /\ pc[w] # "mark_in_progress"
              /\ (pc[w] = "done")
                 => (attempts[w] >= 1 /\ result[w].state = "returned")
        /\ ("mark_failed" \in storeErrors[w])
           => /\ pc[w] = "done"
              /\ result[w].state = "returned"
              /\ ~result[w].success /\ ~result[w].skipped
              /\ result[w].error = lastErr[w].msg

C16_Witness ==
    \E w \in Workers :
        /\ pc[w] = "done"
        /\ {"mark_in_progress", "mark_failed"} \subseteq storeErrors[w]
        /\ attempts[w] >= 1
        /\ result[w].state = "returned" /\ ~result[w].success

\* C17: no store operation's error leaves process_failure: every call,
\* whichever store operation raised in it, ends by returning a result.
C17_StoreErrorNeverPropagates ==
    \A w \in Workers :
        (pc[w] = "done" /\ storeErrors[w] # {})
        => result[w].state = "returned"

\* C18: no violation is lost between polling cycles: every violation the
\* monitor holds has been returned by a fetch or is still later than
\* last_check, so that the next fetch returns it (last_check never goes
\* back, and a fetch returns only failed_at > last_check).
C18_NoViolationLost ==
    \A v \in monitor : v.id \in fetched \/ v.failed_at > last_check

\* C19: once the shutdown flag is set the loop exits; meanwhile it starts no
\* new cycle from the loop head, begins no further sleep slice, and leaves
\* the pool only when every future of the cycle has been collected.
C19_NoNewCycle ==
    (shutdown /\ svcPc = "loop_head") => svcPc' \in {"loop_head", "exited"}

C19_NoFurtherSlice ==
    (shutdown /\ svcPc = "sleep_check") => svcPc' \in {"sleep_check", "loop_head"}

C19_PoolCompletes ==
    (shutdown /\ svcPc = "pool" /\ svcPc' # "pool")
    => \A id \in Submitted : task[id].st = "collected"

C19_ShutdownExits ==
    /\ shutdown ~> (svcPc = "exited")
    /\ [][C19_NoNewCycle /\ C19_NoFurtherSlice /\ C19_PoolCompletes]_vars

C19_Witness ==
    /\ svcPc = "exited" /\ shutdown
    /\ Submitted # {}
    /\ Len(results) = Cardinality(Submitted)

ResultsFor(id) == {i \in 1..Len(results) : results[i].id = id}

\* C20: process_failures_concurrent returns only when every submitted
\* future has finished and been collected, and its results then hold
\* exactly one result per submitted violation: what process_failure
\* returned, or a failure result with the text of what it raised.
C20_OneResultEach ==
    (svcPc # "pool") =>
        /\ Len(results) = Cardinality(Submitted)
        /\ \A id \in Submitted :
             /\ Cardinality(ResultsFor(id)) = 1
             /\ \A i \in ResultsFor(id) :
                  /\ results[i].result.state = "returned"
                  /\ (task[id].out.state = "returned")
                     => results[i].result = task[id].out
                  /\ (task[id].out.state = "raised")
                     => /\ ~results[i].result.success
                        /\ results[i].result.error = task[id].out.error

C20_ReturnsAfterAll ==
    (svcPc = "pool" /\ svcPc' # "pool")
    => \A id \in Submitted : task[id].st = "collected"

C20_PoolWaitsForAll == []C20_OneResultEach /\ [][C20_ReturnsAfterAll]_vars

C20_Witness ==
    /\ svcPc = "update_last_check" /\ shutdown
    /\ Cardinality(Submitted) = 2
    /\ Len(results) = 2
    /\ \E id \in Submitted : task[id].out.state = "raised"

\* C21: GET /ready answers 200 iff the ready flag is set and the service is
\* not shutting down, at the moment the handler decides; a /ready request
\* that comes in after the shutdown flag was set is never answered 200.
C21_HealthAnswer ==
    (hcReq.st # "answered" /\ hcReq'.st = "answered")
    => (hcReq'.status = 200 <=> (service_ready /\ ~shutdown))

C21_ApiAnswer ==
    (apiReq.st # "answered" /\ apiReq'.st = "answered")
    => (apiReq'.status = 200 <=> (api_is_ready /\ ~api_shutdown))

C21_NotReadyAfterShutdown ==
    /\ (hcReq.st = "answered" /\ hcReq.after) => hcReq.status # 200
    /\ (apiReq.st = "answered" /\ apiReq.after) => apiReq.status # 200

C21_ReadyIffNotShuttingDown ==
    /\ []C21_NotReadyAfterShutdown
    /\ [][C21_HealthAnswer /\ C21_ApiAnswer]_vars

\* A request that came in between the two assignments of signal_handler:
\* the ready flag is still set, the answer is 503.
C21_Witness ==
    /\ hcReq.st = "answered" /\ hcReq.after /\ hcReq.status = 503
    /\ service_ready /\ shutdown

RECURSIVE AcquiredIn(_, _)
\* Tokens handed out in the seconds from..to.
AcquiredIn(from, to) ==
    IF from > to THEN 0 ELSE limAcq[from] + AcquiredIn(from + 1, to)

\* C22: whatever the interleaving of acquire and try_acquire calls, the
\* successful acquisitions in any window of length T are at most
\* R*T + burst, with R = requests_per_minute / 60 (both sides times 60).
C22_TokenBudget ==
    \A from \in 0..LimHorizon : \A to \in from..LimHorizon :
        AcquiredIn(from, to) * TokenUnit
            <= requests_per_minute * (to - from) + burst_size * TokenUnit

\* The budget of a window is used up: the burst and the refill of two
\* seconds were handed out, the last token to a caller that had to wait.
C22_Witness ==
    /\ AcquiredIn(0, 2) = burst_size + 1
    /\ limAcq[2] = 1
    /\ \E t \in LimThreadIds : limRet[t] = "true" /\ limWait[t] > 0

\* C23: while one page is being fetched the OAuth exchange is re-run at
\* most once; a second 401 for that page ends the fetch with an error.
C23_AtMostOneReauthPerPage == vcReauths <= 1

\* The entry with the longest pattern among the prefix matches.
LongestPrefixAt(mapping, arn) ==
    CHOOSE i \in PrefixAt(mapping, arn) :
        \A j \in PrefixAt(mapping, arn) :
            Len(mapping[j].pattern) <= Len(mapping[i].pattern)

\* C27: get_repo_for_resource returns the exact-match entry if there is
\* one; otherwise the entry whose pattern is the longest prefix of the
\* resource id, whatever the order of configuration; otherwise the
\* non-empty default; otherwise nothing.
C27_LongestPrefixWins ==
    (cfgResult # "unset") =>
        cfgResult =
            IF ExactAt(cfgMapping, cfgArn) # {}
            THEN cfgMapping[MinOf(ExactAt(cfgMapping, cfgArn))].repo
            ELSE IF PrefixAt(cfgMapping, cfgArn) # {}
            THEN cfgMapping[LongestPrefixAt(cfgMapping, cfgArn)].repo
            ELSE IF DefaultAt(cfgMapping) # {}
                    /\ cfgMapping[MinOf(DefaultAt(cfgMapping))].repo # ""
            THEN cfgMapping[MinOf(DefaultAt(cfgMapping))].repo
            ELSE NoRepo

\* C24: for a violation whose resource matches no repository pattern, with
\* no default repository configured, the call makes exactly one attempt,
\* which fails before any clone with the permanent error "No repository
\* mapping found"; there is no retry, and mark_failed records that error.
C24_NoMappingFailsAtOnce ==
    \A w \in Workers :
        (Started(w) /\ RepoFor(cur[w]) = NoRepo)
        => /\ attempts[w] <= 1
           /\ sleeps[w] = <<>>
           /\ effects[w] = {}
           /\ attempts[w] = 1
              => /\ lastErr[w].msg = "No repository mapping found"
                 /\ ~Retryable(lastErr[w])
           /\ (pc[w] = "done" /\ ~result[w].skipped)
              => /\ attempts[w] = 1
                 /\ result[w].state = "returned"
                 /\ ~result[w].success
                 /\ result[w].error = "No repository mapping found"
                 /\ Cardinality(StoreCallsOf(w, "mark_failed")) = 1
                 /\ \A i \in StoreCallsOf(w, "mark_failed") :
                        storeCalls[w][i].msg = "No repository mapping found"

C24_Witness ==
    \E w \in Workers :
        /\ pc[w] = "done" /\ RepoFor(cur[w]) = NoRepo
        /\ attempts[w] = 1
        /\ store[FP(w)].status = "failed"
        /\ store[FP(w)].last_error = "No repository mapping found"

\* C25: when the generator returns an empty or whitespace-only
\* fixed_config, the attempt fails with the permanent error "Generated fix
\* is empty": the call goes to mark_failed without a retry or a backoff
\* sleep, and the attempt creates no branch and no pull request.
C25_EmptyFixEndsCall ==
    \A w \in Workers :
        fix[w] \in {"empty", "blank"}
        => /\ pc[w] \in {"mark_failed", "mark_failed_set", "done"}
           /\ lastErr[w].msg = "Generated fix is empty"
           /\ ~Retryable(lastErr[w])
           /\ retUrl[w] = NoUrl

C25_EmptyFixAttempt ==
    \A w \in Workers :
        (attempts'[w] # attempts[w] /\ fix'[w] \in {"empty", "blank"})
        => /\ branches' = branches
           /\ prs' = prs
           /\ sleeps'[w] = sleeps[w]
           /\ pc'[w] = "mark_failed"

C25_EmptyFixIsPermanent ==
    []C25_EmptyFixEndsCall /\ [][C25_EmptyFixAttempt]_vars

\* A whitespace-only fix in the second attempt of a call, recorded as failed.
C25_Witness ==
    \E w \in Workers :
        /\ pc[w] = "done" /\ fix[w] = "blank"
        /\ attempts[w] = 2
        /\ store[FP(w)].status = "failed"
        /\ store[FP(w)].last_error = "Generated fix is empty"
        /\ _generate_branch_name(cur[w]) \notin branches

\* C26: an error of a repo-host API call is treated as retryable iff its
\* status is 429 or at least 500, or it has no status; repository-not-found
\* (404) and branch-exists (422) are therefore not retryable.
C26_RetryableIffTransient ==
    (ghRaised.kind \notin {"unset", "none"})
    => /\ Retryable(ghRaised)
          <=> (ghStatus = 0 \/ ghStatus = 429 \/ ghStatus >= 500)
       /\ ghRetry = "retry"
          <=> /\ ghStatus = 0 \/ ghStatus = 429 \/ ghStatus >= 500
              /\ ghAttempt < MAX_RETRIES - 1

\* C28: during a clone performed by the pipeline (_clone_repository), the
\* repo-host token appears neither in the arguments of the spawned git
\* process nor in any log line emitted for the clone, whether the clone
\* succeeds or fails.
C28_TokenNeverExposed ==
    clBy = "_clone_repository" =>
        /\ \A i \in 1..Len(clArgv) : ~ContainsToken(clArgv[i])
        /\ \A line \in clLog : ~ContainsToken(line)

\* A write changes the record of fp and leaves one stored.
Written(fp) == store'[fp] # store[fp] /\ store'[fp].status # "absent"

\* C29 (each write): a record written by check_and_claim, mark_in_progress,
\* mark_processed or mark_failed carries the retention window as its expiry.
C29_WriteSetsTtl ==
    \A fp \in Fingerprints : Written(fp) => store'[fp].ex = ttl_seconds

\* C29 (every state): no stored record is without an expiry.
C29_NoRecordWithoutExpiry ==
    \A fp \in Fingerprints :
        store[fp].status # "absent" => store[fp].ex = ttl_seconds

\* C29: every write to the dedup store (claim, mark_in_progress,
\* mark_processed, mark_failed) sets the record's TTL to the configured
\* retention window, so no stored record ever exists without an expiry.
C29_TtlOnEveryWrite ==
    /\ []C29_NoRecordWithoutExpiry
    /\ [][C29_WriteSetsTtl]_vars

\* A call ended in mark_failed writing its record, and a check_and_claim
\* wrote a claim, both with the retention window as expiry.
C29_Witness ==
    /\ \E w \in Workers :
        /\ pc[w] = "done"
        /\ StoreCallsOf(w, "mark_failed") # {}
        /\ store[FP(w)].status = "failed"
        /\ store[FP(w)].ex = ttl_seconds
    /\ \E v \in Workers : \E fp \in Fingerprints :
        /\ claimed[v] = [fp |-> fp, called |-> TRUE, ok |-> TRUE]
        /\ store[fp] = ClaimRecord

\* C30: every POST /webhook and POST /batch request, whatever its outcome
\* (success, invalid JSON, non-array batch body, processing error), is
\* recorded exactly once in the request statistics together with its
\* latency.
C30_EveryPostRecordedOnce ==
    /\ _stats.total_requests = nPosts
    /\ Len(_stats.latencies) = nPosts
    /\ _stats.successful_requests + _stats.failed_requests = nPosts

\* C31: two violations with equal test id and equal resource identifier get
\* the same fingerprint from generate_failure_hash, whatever their detection
\* timestamps and their other fields.
C31_FingerprintStable ==
    (/\ fhHash # <<>>
     /\ fhV1.test_id = fhV2.test_id
     /\ fhV1.resource_arn = fhV2.resource_arn)
        => fhHash[1] = fhHash[2]

\* Two reports of one violation that differ in timestamp, severity and
\* enrichment id have been fingerprinted.
C31_Witness ==
    /\ fhHash # <<>>
    /\ fhV1.test_id = fhV2.test_id
    /\ fhV1.resource_arn = fhV2.resource_arn
    /\ fhV1.failed_at # fhV2.failed_at
    /\ fhV1.severity # fhV2.severity
    /\ fhV1.resource_id # fhV2.resource_id

\* What try_acquire does to a bucket of `tokens` last refilled at `last`,
\* called at `at`: its return value and the tokens it leaves.
TryAcquireFrom(tokens, last, at) ==
    LET refilled == _refill(tokens, at - last) IN
    [ret |-> refilled >= TokenUnit,
     tokens |-> IF refilled >= TokenUnit THEN refilled - TokenUnit
                ELSE refilled]

\* C32 (under the lock): acquire(timeout=0) refills and takes a token
\* exactly as try_acquire would from the same state, returning True at once
\* when it takes one.
C32_LockedStepAsTryAcquire ==
    \A t \in LimThreadIds :
        (limTimeout[t] = 0 /\ limPc[t] = "locked" /\ limPc'[t] # "locked") =>
            LET r == TryAcquireFrom(limTokens, limLast, limNow) IN
            /\ limTokens' = r.tokens
            /\ limLast' = limNow
            /\ IF r.ret
               THEN limPc'[t] = "idle" /\ limRet'[t] = "true"
               ELSE limPc'[t] = "check_deadline" /\ limRet'[t] = "none"

\* C32 (no token): acquire(timeout=0) then returns False, with the token
\* count as it is.
C32_ThenReturnsFalse ==
    \A t \in LimThreadIds :
        (/\ limTimeout[t] = 0
         /\ limPc[t] = "check_deadline"
         /\ limPc'[t] # "check_deadline") =>
            /\ limPc'[t] = "idle"
            /\ limRet'[t] = "false"
            /\ limTokens' = limTokens

\* C32 (never sleeps): no acquire(timeout=0) is ever in time.sleep.
C32_NeverSleeps ==
    \A t \in LimThreadIds : limTimeout[t] = 0 => limPc[t] # "sleeping"

\* C32: from any limiter state acquire(timeout=0) behaves like
\* try_acquire(): it takes one token and returns true iff a whole token is
\* available after the refill, otherwise it returns false leaving the token
\* count unchanged, and it never sleeps.
C32_AcquireZeroIsTryAcquire ==
    /\ []C32_NeverSleeps
    /\ [][C32_LockedStepAsTryAcquire /\ C32_ThenReturnsFalse]_vars

\* An acquire(timeout=0) found less than one token, some time after the
\* bucket was drained, and is about to check its deadline.
C32_Witness ==
    \E t \in LimThreadIds :
        /\ limTimeout[t] = 0
        /\ limPc[t] = "check_deadline"
        /\ limTokens < TokenUnit
        /\ limNow > 0

\* C33 (every state): the sleep the loop still has to do is not negative.
C33_SleepNotNegative == sleepLeft >= 0

\* C33 (long cycle): when the cycle took at least the polling interval, the
\* computed sleep is 0 and the loop goes to its head without a sleep slice.
C33_LongCycleSkipsSleep ==
    (/\ svcPc = "sleep_calc"
     /\ now - cycle_start >= poll_interval_seconds
     /\ svcPc' # "sleep_calc") =>
        /\ sleepLeft' = 0
        /\ svcPc' = "loop_head"
        /\ now' = now

\* C33: the inter-cycle sleep of the service loop is never negative; when a
\* polling cycle takes at least the polling interval, the computed sleep is
\* 0 and the next cycle starts without sleeping.
C33_SleepNeverNegative ==
    /\ []C33_SleepNotNegative
    /\ [][C33_LongCycleSkipsSleep]_vars

\* A cycle that completed its processing took at least the polling
\* interval, and the loop is back at its head at the time the cycle ended.
C33_Witness ==
    /\ svcPc = "loop_head"
    /\ ~shutdown
    /\ now - cycle_start >= poll_interval_seconds
    /\ last_check = now
    /\ now < MaxTime
    /\ sleepLeft = 0

\* C34: for every timer name and label set the collector holds at most 1000
\* samples, and the samples it holds are the most recently recorded ones,
\* in recording order.
C34_LastThousandKept ==
    \A k \in TimerKeys :
        LET kept == Len(_timings[k]) IN
        /\ kept <= MaxTimings
        /\ kept = Min(mtCount[k], MaxTimings)
        /\ \A i \in 1..kept : _timings[k][i] = mtCount[k] - kept + i

\* More than 1000 timings were recorded under a key: the oldest are gone.
C34_Witness ==
    \E k \in TimerKeys :
        /\ mtCount[k] > MaxTimings + 1
        /\ Len(_timings[k]) = MaxTimings
        /\ _timings[k][1] > 1

\* The run is over and interval i saw floor(2 * 1.5^i) violations, 40 in
\* all, which is also the experiment result's generated count.
CascadeTotals ==
    /\ genEmitted = [i \in GenIntervals |-> <<2, 3, 4, 6, 10, 15>>[i + 1]]
    /\ total_generated = 40

\* C35 (as stated): with the cascade profile, base 2, growth 1.5, interval
\* 10 s and duration 60 s, the generator emits floor(2 * 1.5^i) violations in
\* interval i for i = 0..5, 40 in total, and the experiment result's
\* generated count is 40.
C35_CascadeEmitsForty == genPc = "done" => CascadeTotals

\* C35 (amended): the same, provided the consumer spends less than one
\* interval in total on the violations it is handed.
C35_CascadeEmitsFortyWhenPaced ==
    (genPc = "done" /\ genBusy < interval_seconds) => CascadeTotals

\* A run ended in which the consumer took some time, but less than an
\* interval in all.
C35_Witness ==
    /\ genPc = "done"
    /\ genBusy > 0
    /\ genBusy < interval_seconds
    /\ total_generated = 40


(* ---------------- C36: a finished pipeline's record ------------------- *)
\* The step in which process_failure returns a non-skipped result to its
\* caller.
ReturnsUnskipped(w) ==
    /\ pc[w] # "done"
    /\ pc'[w] = "done"
    /\ result'[w].state = "returned"
    /\ ~result'[w].skipped

\* The status the returned result stands for.
TerminalStatus(res) == IF res.success THEN "completed" ELSE "failed"

C37_CreatedPrNeverFailed ==
    \A w \in Workers :
        (pc[w] = "done" /\ retUrl[w] # NoUrl)
        => /\ result[w].state = "returned"
           /\ result[w].success
           /\ result[w].pr_url = retUrl[w]
           /\ StoreCallsOf(w, "mark_failed") = {}
           /\ store[FP(w)].status # "failed"


(* ----------- C38: retrying after the branch was created --------------- *)
\* C38: a call that created the remediation branch and then met a retryable
\* repo-host error is not rejected as a duplicate branch when it tries again:
\* the retry can still create the pull request.
C38_RetryNotRejectedAsDuplicate ==
    \A w \in Workers :
        ("branch" \in effects[w] /\ "pr" \notin effects[w])
        => lastErr[w].msg # DuplicateBranchMsg


(* ------------- C39: branch names and fingerprints --------------------- *)
\* C39: the duplicate-branch rejection is produced only when a branch for
\* the same fingerprint already exists: violations of one repository with
\* different fingerprints are not rejected as duplicates of each other.
\* With nothing left behind by earlier runs and no record expired, a call
\* rejected as a duplicate either found a record of its own fingerprint at
\* the gate or created the branch itself.
C39_DuplicateOnlyForSameFingerprint ==
    \A w \in Workers :
        (/\ lastErr[w].msg = DuplicateBranchMsg
         /\ seeded = {}
         /\ nExpire = 0)
        => \/ gateSeen[w] # "absent"
           \/ "branch" \in effects[w]


(* ------------- C40: a polling cycle that raises ----------------------- *)
\* From the except clause of a cycle the loop goes on to its sleep with
\* last_check as it was.
C40_ErrorKeepsLastCheck ==
    svcPc = "cycle_error"
    => /\ last_check' = last_check
       /\ svcPc' \in {"cycle_error", "sleep_calc"}

\* last_check moves only in the assignment that follows a fetch and a
\* dispatch that returned.
C40_OnlyCompletedCycleAdvances ==
    last_check' # last_check => svcPc = "update_last_check"

\* The loop ends only at its head, on the shutdown flag.
C40_LoopEndsOnlyOnShutdown ==
    (svcPc # "exited" /\ svcPc' = "exited") => (svcPc = "loop_head" /\ shutdown)

\* A fetch that returns hands over the violations later than last_check.
C40_FetchFromLastCheck ==
    (svcPc = "fetch" /\ svcPc' \in {"pool", "update_last_check"})
    => Submitted' = IdsOf(get_failing_tests_since(last_check))

\* C40: if a polling cycle's fetch or dispatch raises, the service loop does
\* not terminate and does not advance last_check; the next cycle fetches
\* again from the same last_check, so that the violations of the failed
\* window are not skipped.
C40_FailedCycleKeepsWindow ==
    [][/\ C40_ErrorKeepsLastCheck
       /\ C40_OnlyCompletedCycleAdvances
       /\ C40_LoopEndsOnlyOnShutdown
       /\ C40_FetchFromLastCheck]_vars

\* Every earlier cycle raised (last_check still has its first value in a
\* later cycle), and this cycle's fetch has handed a violation to the pool.
C40_Witness ==
    /\ svcPc = "pool"
    /\ last_check = StartTime - HourSeconds
    /\ cycle_start > StartTime
    /\ \E id \in fetched : task[id].st = "queued"

====
